---- MODULE Spec2Model ----
(***************************************************************************)
(* Model of the MedPC reader of lerner-lab-to-nwb                          *)
(* (src/lerner_lab_to_nwb/seiler_2024/medpc.py), of the dataset conversion *)
(* (seiler_2024_convert_dataset.py) and of the TTL alignment               *)
(* (seiler_2024nwbconverter.py).                                           *)
(*                                                                         *)
(* A Python str is a sequence of one-character strings, a file is a        *)
(* sequence of such lines as readlines() returns them (each line keeps     *)
(* its "\n").  A dict is the sequence of its (key, value) items in         *)
(* insertion order.  Python indices are 0-based: line i of the code is     *)
(* lines[i + 1] here.                                                      *)
(***************************************************************************)
EXTENDS Integers, Sequences, FiniteSets, TLC

(***************************************************************************)
(* Bounds of the model.                                                    *)
(***************************************************************************)
\* longest file given to get_session_lines
MaxLines == 4

\* most lines that follow the first start marker in a file given to
\* read_medpc_file
MaxBody == 3

\* longest parsed array given to the conversion alone
MaxArray == 4

\* longest file given to get_medpc_variables
MaxVariableLines == 3

\* most lines that follow the start marker of a session in a file read by
\* successive calls
MaxCallBody == 2

\* most successive calls of read_medpc_file on one file
MaxCalls == 3

(***************************************************************************)
(* Python str methods, computed on sequences of characters.                *)
(***************************************************************************)
\* the characters str.strip() / str.rstrip() remove: those str.isspace() holds
\* of.  A character TLA+ has no escape for is named by its Python escape.
Whitespace ==
    { " ", "\t", "\n", "\r", "\f", "\\x0b", "\\x1c", "\\x1d", "\\x1e", "\\x1f",
      "\\x85", "\\xa0", "\\u1680", "\\u2000", "\\u2001", "\\u2002", "\\u2003",
      "\\u2004", "\\u2005", "\\u2006", "\\u2007", "\\u2008", "\\u2009", "\\u200a",
      "\\u2028", "\\u2029", "\\u202f", "\\u205f", "\\u3000" }

\* str.rstrip()
RECURSIVE RStrip(_)
RStrip(s) ==
    IF s = <<>> THEN <<>>
    ELSE IF s[Len(s)] \in Whitespace THEN RStrip(SubSeq(s, 1, Len(s) - 1))
    ELSE s

\* str.lstrip()
RECURSIVE LStrip(_)
LStrip(s) ==
    IF s = <<>> THEN <<>>
    ELSE IF s[1] \in Whitespace THEN LStrip(Tail(s))
    ELSE s

\* str.strip()
Strip(s) == LStrip(RStrip(s))

\* s.startswith(p)
StartsWith(s, p) == Len(p) <= Len(s) /\ SubSeq(s, 1, Len(p)) = p

\* c in s
Contains(s, c) == \E k \in 1..Len(s) : s[k] = c

\* s.find(c) for a single character c: 0-based index of the first c, or -1
Find(s, c) ==
    IF Contains(s, c)
    THEN (CHOOSE k \in 1..Len(s) : s[k] = c /\ \A j \in 1..(k - 1) : s[j] # c) - 1
    ELSE -1

\* s.split(c): the list of the pieces of s between the occurrences of c
RECURSIVE Split(_, _)
Split(s, c) ==
    IF ~Contains(s, c) THEN <<s>>
    ELSE LET k == Find(s, c) + 1
         IN <<SubSeq(s, 1, k - 1)>> \o Split(SubSeq(s, k + 1, Len(s)), c)

\* s.rsplit(c, maxsplit=1): the split at the last c
SplitAtLast(s, c) ==
    IF ~Contains(s, c) THEN <<s>>
    ELSE LET k == CHOOSE j \in 1..Len(s) :
                      s[j] = c /\ \A m \in (j + 1)..Len(s) : s[m] # c
         IN <<SubSeq(s, 1, k - 1), SubSeq(s, k + 1, Len(s))>>

\* s.split(c, maxsplit=1)
SplitOnce(s, c) ==
    IF ~Contains(s, c) THEN <<s>>
    ELSE LET k == Find(s, c) + 1
         IN <<SubSeq(s, 1, k - 1), SubSeq(s, k + 1, Len(s))>>

\* f"{name}: {value}"
NameColonValue(name, value) == name \o <<":", " ">> \o value

\* f"{name}:"
NameColon(name) == name \o <<":">>

(***************************************************************************)
(* dict helpers: a dict is a sequence of <<key, value>> items.             *)
(***************************************************************************)
Keys(d) == {d[k][1] : k \in 1..Len(d)}

HasKey(d, key) == key \in Keys(d)

Lookup(d, key) == d[CHOOSE k \in 1..Len(d) : d[k][1] = key][2]

(***************************************************************************)
(* The inputs of get_session_lines.                                        *)
(***************************************************************************)
\* the start variable ("Start Date" in every caller) and a second header label
NameS == <<"S">>
NameK == <<"K">>
ValA == <<"1", "/", "2", "/", "1", "9">>
ValB == <<"b">>

Line(name, value) == NameColonValue(name, value) \o <<"\n">>

BlankLine == <<"\n">>

\* the lines a file given to get_session_lines is made of
LocateLines ==
    { BlankLine,
      <<" ", "\f", "\n">>,
      Line(NameS, ValA),
      Line(NameS, ValB),
      Line(NameK, ValA),
      Line(NameK, ValB),
      <<" ">> \o Line(NameS, ValA) }

LocateFiles == UNION {[1..n -> LocateLines] : n \in 0..MaxLines}

\* the session_conditions dicts, in both insertion orders
LocateConditions ==
    { <<>>,
      << <<NameS, ValA>> >>,
      << <<NameK, ValB>> >>,
      << <<NameS, ValB>>, <<NameK, ValB>> >>,
      << <<NameK, ValB>>, <<NameS, ValB>> >> }

(***************************************************************************)
(* get_session_lines                                                       *)
(***************************************************************************)
VARIABLES
    lines,              \* get_session_lines: lines
    session_conditions, \* get_session_lines: session_conditions
    start_variable,     \* get_session_lines: start_variable
    i,                  \* number of lines the for loop has consumed
    start_line,         \* start_line (NoLine for None)
    end_line,           \* end_line
    met,                \* session_condition_has_been_met
    pc,                 \* position in the running function
    result,             \* what get_session_lines returned or raised
    medpc_name_to_dict_name,  \* read_medpc_file: medpc_name_to_dict_name
    dict_name_to_type,        \* read_medpc_file: dict_name_to_type
    session_lines,            \* read_medpc_file: session_lines
    session_dict,             \* read_medpc_file: session_dict
    multiline_variable_name,  \* read_medpc_file: multiline_variable_name
    read_result,              \* what read_medpc_file returned or raised
    variable_names,           \* get_medpc_variables: variable_names
    medpc_variables,          \* get_medpc_variables: medpc_variables
    variables_result,         \* what get_medpc_variables returned or raised
    calls,                    \* the calls of read_medpc_file made so far
    found,                    \* fp_to_nwb / opto_to_nwb: the folders and files the directory walks yield with their sessions, and how many they have yielded
    session_to_nwb_args_per_session, \* fp_to_nwb / opto_to_nwb: the list each function builds
    unique_session_keys,      \* fp_to_nwb / opto_to_nwb: unique_session_keys of each function
    futures,                  \* dataset_to_nwb: futures, with the state of each submitted call
    error_files,              \* the error files under output_dir_path
    completed,                \* the futures as_completed has yielded to the driver
    dataset_pc,               \* position of dataset_to_nwb
    raised,                   \* the exception dataset_to_nwb ended with ("" for none)
    port_entry_file,          \* sessions_without_port_entry_durations.yaml under data_dir_path
    ttl_call,                 \* get_ttl_timestamps: ttl_name, tdt_photometry.epocs, len_behavior
    ttl_timestamps            \* what get_ttl_timestamps returned

locateVars == <<lines, session_conditions, start_variable, i, start_line,
                end_line, met, pc, result>>

readVars == <<medpc_name_to_dict_name, dict_name_to_type, session_lines,
              session_dict, multiline_variable_name, read_result>>

variablesVars == <<variable_names, medpc_variables, variables_result>>

datasetVars == <<found, session_to_nwb_args_per_session, unique_session_keys,
                 futures, error_files, completed, dataset_pc, raised,
                 port_entry_file>>

ttlVars == <<ttl_call, ttl_timestamps>>

vars == <<locateVars, readVars, variablesVars, calls, datasetVars, ttlVars>>

\* no call of get_ttl_timestamps yet
NoCall == [ttl_name |-> "", epocs |-> <<>>, len_behavior |-> 0]

\* get_ttl_timestamps has not returned
NoTimestamps == [kind |-> "none"]

\* the state of the dataset conversion and of the TTL alignment while
\* neither runs
ConversionIdle ==
    /\ found = [sessions |-> <<>>, yielded |-> 0]
    /\ session_to_nwb_args_per_session = <<>>
    /\ unique_session_keys = <<>>
    /\ futures = <<>>
    /\ error_files = <<>>
    /\ completed = {}
    /\ dataset_pc = "idle"
    /\ raised = ""
    /\ port_entry_file = [exists |-> FALSE, is_none |-> FALSE, sessions |-> {}]
    /\ ttl_call = NoCall
    /\ ttl_timestamps = NoTimestamps

\* start_line = None
NoLine == -1

\* {name: False for name in session_conditions}
AllFalse(conds) == [name \in Keys(conds) |-> FALSE]

\* all(session_condition_has_been_met.values())
AllMet(m) == \A name \in DOMAIN m : m[name]

\* lines 63-65: the flags after the conditions are compared with the line
MarkMet(m, conds, line) ==
    [name \in DOMAIN m |->
        IF line = NameColonValue(name, Lookup(conds, name)) THEN TRUE ELSE m[name]]

\* LoopBody without the break of line 68
LoopBodyNoBreak(ls, conds, sv, idx, st) ==
    LET line == Strip(ls[idx + 1])
        start1 == IF StartsWith(line, NameColon(sv)) THEN idx ELSE st.start_line
        met1 == [name \in DOMAIN st.met |->
                    IF line = NameColonValue(name, Lookup(conds, name))
                    THEN TRUE ELSE st.met[name]]
    IN  IF line = <<>> /\ (\A name \in DOMAIN met1 : met1[name])
        THEN [start_line |-> start1, end_line |-> idx, met |-> met1, broke |-> FALSE]
        ELSE IF line = <<>>
        THEN [start_line |-> NoLine, end_line |-> st.end_line,
              met |-> [name \in DOMAIN st.met |-> FALSE], broke |-> FALSE]
        ELSE [start_line |-> start1, end_line |-> st.end_line,
              met |-> met1, broke |-> FALSE]

\* LoopBody whose line 66 tests the flag of the first condition only
LoopBodyFirstFlag(ls, conds, sv, idx, st) ==
    LET line == Strip(ls[idx + 1])
        start1 == IF StartsWith(line, NameColon(sv)) THEN idx ELSE st.start_line
        met1 == [name \in DOMAIN st.met |->
                    IF line = NameColonValue(name, Lookup(conds, name))
                    THEN TRUE ELSE st.met[name]]
    IN  IF line = <<>> /\ (conds = <<>> \/ met1[conds[1][1]])
        THEN [start_line |-> start1, end_line |-> idx, met |-> met1, broke |-> TRUE]
        ELSE IF line = <<>>
        THEN [start_line |-> NoLine, end_line |-> st.end_line,
              met |-> [name \in DOMAIN st.met |-> FALSE], broke |-> FALSE]
        ELSE [start_line |-> start1, end_line |-> st.end_line,
              met |-> met1, broke |-> FALSE]

\* LoopBody without the reset of the flags of line 70
LoopBodyNoReset(ls, conds, sv, idx, st) ==
    LET line == Strip(ls[idx + 1])
        start1 == IF StartsWith(line, NameColon(sv)) THEN idx ELSE st.start_line
        met1 == [name \in DOMAIN st.met |->
                    IF line = NameColonValue(name, Lookup(conds, name))
                    THEN TRUE ELSE st.met[name]]
    IN  IF line = <<>> /\ (\A name \in DOMAIN met1 : met1[name])
        THEN [start_line |-> start1, end_line |-> idx, met |-> met1, broke |-> TRUE]
        ELSE IF line = <<>>
        THEN [start_line |-> NoLine, end_line |-> st.end_line,
              met |-> met1, broke |-> FALSE]
        ELSE [start_line |-> start1, end_line |-> st.end_line,
              met |-> met1, broke |-> FALSE]

\* LoopBody without the reset of start_line of line 71
LoopBodyKeepStart(ls, conds, sv, idx, st) ==
    LET line == Strip(ls[idx + 1])
        start1 == IF StartsWith(line, NameColon(sv)) THEN idx ELSE st.start_line
        met1 == [name \in DOMAIN st.met |->
                    IF line = NameColonValue(name, Lookup(conds, name))
                    THEN TRUE ELSE st.met[name]]
    IN  IF line = <<>> /\ (\A name \in DOMAIN met1 : met1[name])
        THEN [start_line |-> start1, end_line |-> idx, met |-> met1, broke |-> TRUE]
        ELSE IF line = <<>>
        THEN [start_line |-> start1, end_line |-> st.end_line,
              met |-> [name \in DOMAIN st.met |-> FALSE], broke |-> FALSE]
        ELSE [start_line |-> start1, end_line |-> st.end_line,
              met |-> met1, broke |-> FALSE]

\* LoopBody whose line 62 keeps the first start marker it has seen
LoopBodyFirstStart(ls, conds, sv, idx, st) ==
    LET line == Strip(ls[idx + 1])
        start1 == IF StartsWith(line, NameColon(sv)) /\ st.start_line = NoLine
                  THEN idx ELSE st.start_line
        met1 == [name \in DOMAIN st.met |->
                    IF line = NameColonValue(name, Lookup(conds, name))
                    THEN TRUE ELSE st.met[name]]
    IN  IF line = <<>> /\ (\A name \in DOMAIN met1 : met1[name])
        THEN [start_line |-> start1, end_line |-> idx, met |-> met1, broke |-> TRUE]
        ELSE IF line = <<>>
        THEN [start_line |-> NoLine, end_line |-> st.end_line,
              met |-> [name \in DOMAIN st.met |-> FALSE], broke |-> FALSE]
        ELSE [start_line |-> start1, end_line |-> st.end_line,
              met |-> met1, broke |-> FALSE]

\* lines 60-71: one iteration of the for loop on lines[idx] (0-based idx)
LoopBody(ls, conds, sv, idx, st) ==
    LET line == Strip(ls[idx + 1])
        start1 == IF StartsWith(line, NameColon(sv)) THEN idx ELSE st.start_line
        met1 == MarkMet(st.met, conds, line)
    IN  IF line = <<>> /\ AllMet(met1)
        THEN [start_line |-> start1, end_line |-> idx, met |-> met1, broke |-> TRUE]
        ELSE IF line = <<>>
        THEN [start_line |-> NoLine, end_line |-> st.end_line,
              met |-> AllFalse(conds), broke |-> FALSE]
        ELSE [start_line |-> start1, end_line |-> st.end_line,
              met |-> met1, broke |-> FALSE]

\* LoopInit with end_line one short of the end of the file
LoopInitShort(ls, conds) ==
    [start_line |-> NoLine, end_line |-> Len(ls) - 1,
     met |-> [name \in Keys(conds) |-> FALSE], broke |-> FALSE]

\* lines 57-58: the locals before the loop
LoopInit(ls, conds) ==
    [start_line |-> NoLine, end_line |-> Len(ls), met |-> AllFalse(conds),
     broke |-> FALSE]

\* lines 59-71: the for loop from line idx on
RECURSIVE RunLoop(_, _, _, _, _)
RunLoop(ls, conds, sv, idx, st) ==
    IF idx >= Len(ls) \/ st.broke THEN st
    ELSE RunLoop(ls, conds, sv, idx + 1, LoopBody(ls, conds, sv, idx, st))

\* the messages of the two ValueErrors (lines 73 and 75-77)
MsgNoSession == "Could not find the session with conditions"
MsgNoStart == "Could not find the start variable"

NoResult == [kind |-> "none", message |-> "", start |-> NoLine, end |-> NoLine,
             session_lines |-> <<>>, conditions |-> <<>>]

\* raise ValueError(f"{msg} ... {session_conditions}")
Raise(msg, conds) ==
    [kind |-> "ValueError", message |-> msg, start |-> NoLine, end |-> NoLine,
     session_lines |-> <<>>, conditions |-> conds]

\* Return whose slice takes the terminating line too
ReturnThroughEnd(ls, st) ==
    [kind |-> "returned", message |-> "", start |-> st.start_line,
     end |-> st.end_line,
     session_lines |->
         SubSeq(ls, st.start_line + 1,
                IF st.end_line < Len(ls) THEN st.end_line + 1 ELSE Len(ls)),
     conditions |-> <<>>]

\* lines 78-79: session_lines = lines[start_line:end_line]
Return(ls, st) ==
    [kind |-> "returned", message |-> "", start |-> st.start_line,
     end |-> st.end_line,
     session_lines |-> SubSeq(ls, st.start_line + 1, st.end_line),
     conditions |-> <<>>]

\* Outcome with the two checks of lines 72 and 74 in the other order
OutcomeStartFirst(ls, conds, st) ==
    IF st.start_line = NoLine THEN Raise(MsgNoStart, conds)
    ELSE IF ~AllMet(st.met) THEN Raise(MsgNoSession, conds)
    ELSE Return(ls, st)

\* Outcome that refuses a block the end of the file terminates
OutcomeNeedsBlank(ls, conds, st) ==
    IF st.end_line = Len(ls) THEN Raise("Malformed log", conds)
    ELSE IF ~AllMet(st.met) THEN Raise(MsgNoSession, conds)
    ELSE IF st.start_line = NoLine THEN Raise(MsgNoStart, conds)
    ELSE Return(ls, st)

\* lines 72-79: the outcome of the call from the locals after the loop
Outcome(ls, conds, st) ==
    IF ~AllMet(st.met) THEN Raise(MsgNoSession, conds)
    ELSE IF st.start_line = NoLine THEN Raise(MsgNoStart, conds)
    ELSE Return(ls, st)

\* get_session_lines(lines, session_conditions, start_variable)
GetSessionLines(ls, conds, sv) ==
    Outcome(ls, conds, RunLoop(ls, conds, sv, 0, LoopInit(ls, conds)))

(***************************************************************************)
(* read_medpc_file: values, conversions and the two loops.                 *)
(***************************************************************************)
\* line 104: the column of the colon of a line of a multiline variable
ContinuationColumn == 6

\* line 105: the label of the first line of a multiline variable
ZeroIndexLabel == <<" ", " ", " ", " ", " ", "0">>

\* line 98: the mark of a commented line
CommentMark == <<"\\">>

\* the values of session_dict: a str, a list of str, a numpy array, a time
StrValue(s) == [tag |-> "str", text |-> s, items |-> <<>>, nums |-> <<>>, hms |-> <<>>]

ListValue(items) ==
    [tag |-> "list", text |-> <<>>, items |-> items, nums |-> <<>>, hms |-> <<>>]

ArrayValue(nums) ==
    [tag |-> "ndarray", text |-> <<>>, items |-> <<>>, nums |-> nums, hms |-> <<>>]

TimeValue(h, m, sec) ==
    [tag |-> "time", text |-> <<>>, items |-> <<>>, nums |-> <<>>, hms |-> <<h, m, sec>>]

\* session_dict[name] = value
Put(d, name, value) ==
    [k \in DOMAIN d \cup {name} |-> IF k = name THEN value ELSE d[k]]

\* multiline_variable_name before its first assignment
Unbound == [bound |-> FALSE, name |-> <<>>]

\* the greatest and the least element of a set of numbers
Max(S) == CHOOSE x \in S : \A y \in S : y <= x

Min(S) == CHOOSE x \in S : \A y \in S : x <= y

Digits == <<"0", "1", "2", "3", "4", "5", "6", "7", "8", "9">>

\* [0-9]
IsDigits(s) == \A k \in 1..Len(s) : \E d \in 1..Len(Digits) : Digits[d] = s[k]

\* the decimal digits of Unicode 14 (those str.isdecimal() holds of, which
\* \d matches and int() and float() read), each row in the order of the
\* values 0 to 9
DecimalDigits ==
    {
      <<"0", "1", "2", "3", "4", "5", "6", "7", "8", "9">>,
      <<"\\u0660", "\\u0661", "\\u0662", "\\u0663", "\\u0664", "\\u0665", "\\u0666", "\\u0667", "\\u0668", "\\u0669">>,
      <<"\\u06f0", "\\u06f1", "\\u06f2", "\\u06f3", "\\u06f4", "\\u06f5", "\\u06f6", "\\u06f7", "\\u06f8", "\\u06f9">>,
      <<"\\u07c0", "\\u07c1", "\\u07c2", "\\u07c3", "\\u07c4", "\\u07c5", "\\u07c6", "\\u07c7", "\\u07c8", "\\u07c9">>,
      <<"\\u0966", "\\u0967", "\\u0968", "\\u0969", "\\u096a", "\\u096b", "\\u096c", "\\u096d", "\\u096e", "\\u096f">>,
      <<"\\u09e6", "\\u09e7", "\\u09e8", "\\u09e9", "\\u09ea", "\\u09eb", "\\u09ec", "\\u09ed", "\\u09ee", "\\u09ef">>,
      <<"\\u0a66", "\\u0a67", "\\u0a68", "\\u0a69", "\\u0a6a", "\\u0a6b", "\\u0a6c", "\\u0a6d", "\\u0a6e", "\\u0a6f">>,
      <<"\\u0ae6", "\\u0ae7", "\\u0ae8", "\\u0ae9", "\\u0aea", "\\u0aeb", "\\u0aec", "\\u0aed", "\\u0aee", "\\u0aef">>,
      <<"\\u0b66", "\\u0b67", "\\u0b68", "\\u0b69", "\\u0b6a", "\\u0b6b", "\\u0b6c", "\\u0b6d", "\\u0b6e", "\\u0b6f">>,
      <<"\\u0be6", "\\u0be7", "\\u0be8", "\\u0be9", "\\u0bea", "\\u0beb", "\\u0bec", "\\u0bed", "\\u0bee", "\\u0bef">>,
      <<"\\u0c66", "\\u0c67", "\\u0c68", "\\u0c69", "\\u0c6a", "\\u0c6b", "\\u0c6c", "\\u0c6d", "\\u0c6e", "\\u0c6f">>,
      <<"\\u0ce6", "\\u0ce7", "\\u0ce8", "\\u0ce9", "\\u0cea", "\\u0ceb", "\\u0cec", "\\u0ced", "\\u0cee", "\\u0cef">>,
      <<"\\u0d66", "\\u0d67", "\\u0d68", "\\u0d69", "\\u0d6a", "\\u0d6b", "\\u0d6c", "\\u0d6d", "\\u0d6e", "\\u0d6f">>,
      <<"\\u0de6", "\\u0de7", "\\u0de8", "\\u0de9", "\\u0dea", "\\u0deb", "\\u0dec", "\\u0ded", "\\u0dee", "\\u0def">>,
      <<"\\u0e50", "\\u0e51", "\\u0e52", "\\u0e53", "\\u0e54", "\\u0e55", "\\u0e56", "\\u0e57", "\\u0e58", "\\u0e59">>,
      <<"\\u0ed0", "\\u0ed1", "\\u0ed2", "\\u0ed3", "\\u0ed4", "\\u0ed5", "\\u0ed6", "\\u0ed7", "\\u0ed8", "\\u0ed9">>,
      <<"\\u0f20", "\\u0f21", "\\u0f22", "\\u0f23", "\\u0f24", "\\u0f25", "\\u0f26", "\\u0f27", "\\u0f28", "\\u0f29">>,
      <<"\\u1040", "\\u1041", "\\u1042", "\\u1043", "\\u1044", "\\u1045", "\\u1046", "\\u1047", "\\u1048", "\\u1049">>,
      <<"\\u1090", "\\u1091", "\\u1092", "\\u1093", "\\u1094", "\\u1095", "\\u1096", "\\u1097", "\\u1098", "\\u1099">>,
      <<"\\u17e0", "\\u17e1", "\\u17e2", "\\u17e3", "\\u17e4", "\\u17e5", "\\u17e6", "\\u17e7", "\\u17e8", "\\u17e9">>,
      <<"\\u1810", "\\u1811", "\\u1812", "\\u1813", "\\u1814", "\\u1815", "\\u1816", "\\u1817", "\\u1818", "\\u1819">>,
      <<"\\u1946", "\\u1947", "\\u1948", "\\u1949", "\\u194a", "\\u194b", "\\u194c", "\\u194d", "\\u194e", "\\u194f">>,
      <<"\\u19d0", "\\u19d1", "\\u19d2", "\\u19d3", "\\u19d4", "\\u19d5", "\\u19d6", "\\u19d7", "\\u19d8", "\\u19d9">>,
      <<"\\u1a80", "\\u1a81", "\\u1a82", "\\u1a83", "\\u1a84", "\\u1a85", "\\u1a86", "\\u1a87", "\\u1a88", "\\u1a89">>,
      <<"\\u1a90", "\\u1a91", "\\u1a92", "\\u1a93", "\\u1a94", "\\u1a95", "\\u1a96", "\\u1a97", "\\u1a98", "\\u1a99">>,
      <<"\\u1b50", "\\u1b51", "\\u1b52", "\\u1b53", "\\u1b54", "\\u1b55", "\\u1b56", "\\u1b57", "\\u1b58", "\\u1b59">>,
      <<"\\u1bb0", "\\u1bb1", "\\u1bb2", "\\u1bb3", "\\u1bb4", "\\u1bb5", "\\u1bb6", "\\u1bb7", "\\u1bb8", "\\u1bb9">>,
      <<"\\u1c40", "\\u1c41", "\\u1c42", "\\u1c43", "\\u1c44", "\\u1c45", "\\u1c46", "\\u1c47", "\\u1c48", "\\u1c49">>,
      <<"\\u1c50", "\\u1c51", "\\u1c52", "\\u1c53", "\\u1c54", "\\u1c55", "\\u1c56", "\\u1c57", "\\u1c58", "\\u1c59">>,
      <<"\\ua620", "\\ua621", "\\ua622", "\\ua623", "\\ua624", "\\ua625", "\\ua626", "\\ua627", "\\ua628", "\\ua629">>,
      <<"\\ua8d0", "\\ua8d1", "\\ua8d2", "\\ua8d3", "\\ua8d4", "\\ua8d5", "\\ua8d6", "\\ua8d7", "\\ua8d8", "\\ua8d9">>,
      <<"\\ua900", "\\ua901", "\\ua902", "\\ua903", "\\ua904", "\\ua905", "\\ua906", "\\ua907", "\\ua908", "\\ua909">>,
      <<"\\ua9d0", "\\ua9d1", "\\ua9d2", "\\ua9d3", "\\ua9d4", "\\ua9d5", "\\ua9d6", "\\ua9d7", "\\ua9d8", "\\ua9d9">>,
      <<"\\ua9f0", "\\ua9f1", "\\ua9f2", "\\ua9f3", "\\ua9f4", "\\ua9f5", "\\ua9f6", "\\ua9f7", "\\ua9f8", "\\ua9f9">>,
      <<"\\uaa50", "\\uaa51", "\\uaa52", "\\uaa53", "\\uaa54", "\\uaa55", "\\uaa56", "\\uaa57", "\\uaa58", "\\uaa59">>,
      <<"\\uabf0", "\\uabf1", "\\uabf2", "\\uabf3", "\\uabf4", "\\uabf5", "\\uabf6", "\\uabf7", "\\uabf8", "\\uabf9">>,
      <<"\\uff10", "\\uff11", "\\uff12", "\\uff13", "\\uff14", "\\uff15", "\\uff16", "\\uff17", "\\uff18", "\\uff19">>,
      <<"\\U000104a0", "\\U000104a1", "\\U000104a2", "\\U000104a3", "\\U000104a4", "\\U000104a5", "\\U000104a6", "\\U000104a7", "\\U000104a8", "\\U000104a9">>,
      <<"\\U00010d30", "\\U00010d31", "\\U00010d32", "\\U00010d33", "\\U00010d34", "\\U00010d35", "\\U00010d36", "\\U00010d37", "\\U00010d38", "\\U00010d39">>,
      <<"\\U00011066", "\\U00011067", "\\U00011068", "\\U00011069", "\\U0001106a", "\\U0001106b", "\\U0001106c", "\\U0001106d", "\\U0001106e", "\\U0001106f">>,
      <<"\\U000110f0", "\\U000110f1", "\\U000110f2", "\\U000110f3", "\\U000110f4", "\\U000110f5", "\\U000110f6", "\\U000110f7", "\\U000110f8", "\\U000110f9">>,
      <<"\\U00011136", "\\U00011137", "\\U00011138", "\\U00011139", "\\U0001113a", "\\U0001113b", "\\U0001113c", "\\U0001113d", "\\U0001113e", "\\U0001113f">>,
      <<"\\U000111d0", "\\U000111d1", "\\U000111d2", "\\U000111d3", "\\U000111d4", "\\U000111d5", "\\U000111d6", "\\U000111d7", "\\U000111d8", "\\U000111d9">>,
      <<"\\U000112f0", "\\U000112f1", "\\U000112f2", "\\U000112f3", "\\U000112f4", "\\U000112f5", "\\U000112f6", "\\U000112f7", "\\U000112f8", "\\U000112f9">>,
      <<"\\U00011450", "\\U00011451", "\\U00011452", "\\U00011453", "\\U00011454", "\\U00011455", "\\U00011456", "\\U00011457", "\\U00011458", "\\U00011459">>,
      <<"\\U000114d0", "\\U000114d1", "\\U000114d2", "\\U000114d3", "\\U000114d4", "\\U000114d5", "\\U000114d6", "\\U000114d7", "\\U000114d8", "\\U000114d9">>,
      <<"\\U00011650", "\\U00011651", "\\U00011652", "\\U00011653", "\\U00011654", "\\U00011655", "\\U00011656", "\\U00011657", "\\U00011658", "\\U00011659">>,
      <<"\\U000116c0", "\\U000116c1", "\\U000116c2", "\\U000116c3", "\\U000116c4", "\\U000116c5", "\\U000116c6", "\\U000116c7", "\\U000116c8", "\\U000116c9">>,
      <<"\\U00011730", "\\U00011731", "\\U00011732", "\\U00011733", "\\U00011734", "\\U00011735", "\\U00011736", "\\U00011737", "\\U00011738", "\\U00011739">>,
      <<"\\U000118e0", "\\U000118e1", "\\U000118e2", "\\U000118e3", "\\U000118e4", "\\U000118e5", "\\U000118e6", "\\U000118e7", "\\U000118e8", "\\U000118e9">>,
      <<"\\U00011950", "\\U00011951", "\\U00011952", "\\U00011953", "\\U00011954", "\\U00011955", "\\U00011956", "\\U00011957", "\\U00011958", "\\U00011959">>,
      <<"\\U00011c50", "\\U00011c51", "\\U00011c52", "\\U00011c53", "\\U00011c54", "\\U00011c55", "\\U00011c56", "\\U00011c57", "\\U00011c58", "\\U00011c59">>,
      <<"\\U00011d50", "\\U00011d51", "\\U00011d52", "\\U00011d53", "\\U00011d54", "\\U00011d55", "\\U00011d56", "\\U00011d57", "\\U00011d58", "\\U00011d59">>,
      <<"\\U00011da0", "\\U00011da1", "\\U00011da2", "\\U00011da3", "\\U00011da4", "\\U00011da5", "\\U00011da6", "\\U00011da7", "\\U00011da8", "\\U00011da9">>,
      <<"\\U00016a60", "\\U00016a61", "\\U00016a62", "\\U00016a63", "\\U00016a64", "\\U00016a65", "\\U00016a66", "\\U00016a67", "\\U00016a68", "\\U00016a69">>,
      <<"\\U00016ac0", "\\U00016ac1", "\\U00016ac2", "\\U00016ac3", "\\U00016ac4", "\\U00016ac5", "\\U00016ac6", "\\U00016ac7", "\\U00016ac8", "\\U00016ac9">>,
      <<"\\U00016b50", "\\U00016b51", "\\U00016b52", "\\U00016b53", "\\U00016b54", "\\U00016b55", "\\U00016b56", "\\U00016b57", "\\U00016b58", "\\U00016b59">>,
      <<"\\U0001d7ce", "\\U0001d7cf", "\\U0001d7d0", "\\U0001d7d1", "\\U0001d7d2", "\\U0001d7d3", "\\U0001d7d4", "\\U0001d7d5", "\\U0001d7d6", "\\U0001d7d7">>,
      <<"\\U0001d7d8", "\\U0001d7d9", "\\U0001d7da", "\\U0001d7db", "\\U0001d7dc", "\\U0001d7dd", "\\U0001d7de", "\\U0001d7df", "\\U0001d7e0", "\\U0001d7e1">>,
      <<"\\U0001d7e2", "\\U0001d7e3", "\\U0001d7e4", "\\U0001d7e5", "\\U0001d7e6", "\\U0001d7e7", "\\U0001d7e8", "\\U0001d7e9", "\\U0001d7ea", "\\U0001d7eb">>,
      <<"\\U0001d7ec", "\\U0001d7ed", "\\U0001d7ee", "\\U0001d7ef", "\\U0001d7f0", "\\U0001d7f1", "\\U0001d7f2", "\\U0001d7f3", "\\U0001d7f4", "\\U0001d7f5">>,
      <<"\\U0001d7f6", "\\U0001d7f7", "\\U0001d7f8", "\\U0001d7f9", "\\U0001d7fa", "\\U0001d7fb", "\\U0001d7fc", "\\U0001d7fd", "\\U0001d7fe", "\\U0001d7ff">>,
      <<"\\U0001e140", "\\U0001e141", "\\U0001e142", "\\U0001e143", "\\U0001e144", "\\U0001e145", "\\U0001e146", "\\U0001e147", "\\U0001e148", "\\U0001e149">>,
      <<"\\U0001e2f0", "\\U0001e2f1", "\\U0001e2f2", "\\U0001e2f3", "\\U0001e2f4", "\\U0001e2f5", "\\U0001e2f6", "\\U0001e2f7", "\\U0001e2f8", "\\U0001e2f9">>,
      <<"\\U0001e950", "\\U0001e951", "\\U0001e952", "\\U0001e953", "\\U0001e954", "\\U0001e955", "\\U0001e956", "\\U0001e957", "\\U0001e958", "\\U0001e959">>,
      <<"\\U0001fbf0", "\\U0001fbf1", "\\U0001fbf2", "\\U0001fbf3", "\\U0001fbf4", "\\U0001fbf5", "\\U0001fbf6", "\\U0001fbf7", "\\U0001fbf8", "\\U0001fbf9">> }

\* \d
IsDecimal(c) == IsDigits(<<c>>) \/ \E row \in DecimalDigits : \E k \in 1..10 : row[k] = c

\* the value of a decimal digit
DecimalValue(c) ==
    IF IsDigits(<<c>>) THEN (CHOOSE k \in 1..10 : Digits[k] = c) - 1
    ELSE (CHOOSE k \in 1..10 : \E row \in DecimalDigits : row[k] = c) - 1

\* int(s) for a string of decimal digits ("" counts 0)
RECURSIVE IntOf(_)
IntOf(s) ==
    IF s = <<>> THEN 0
    ELSE 10 * IntOf(SubSeq(s, 1, Len(s) - 1)) + DecimalValue(s[Len(s)])

\* the whitespace float() strips once the string is ASCII: that of C's
\* isspace
CSpace == {" ", "\t", "\n", "\r", "\f", "\\x0b"}

\* what float() makes of the string first: a decimal digit becomes its ASCII
\* digit and a whitespace character that is not ASCII a space
TransformDecimalAndSpaceToASCII(s) ==
    [k \in 1..Len(s) |->
        IF IsDecimal(s[k]) THEN Digits[DecimalValue(s[k]) + 1]
        ELSE IF s[k] \in Whitespace \ (CSpace \cup {"\\x1c", "\\x1d", "\\x1e", "\\x1f"})
        THEN " "
        ELSE s[k]]

RECURSIVE CStrip(_)
CStrip(s) ==
    IF s = <<>> THEN <<>>
    ELSE IF s[1] \in CSpace THEN CStrip(Tail(s))
    ELSE IF s[Len(s)] \in CSpace THEN CStrip(SubSeq(s, 1, Len(s) - 1))
    ELSE s

\* str.lower() on the letters of a float
Lower(s) ==
    [k \in 1..Len(s) |->
        CASE s[k] = "A" -> "a" [] s[k] = "E" -> "e" [] s[k] = "F" -> "f"
          [] s[k] = "I" -> "i" [] s[k] = "N" -> "n" [] s[k] = "T" -> "t"
          [] s[k] = "Y" -> "y" [] OTHER -> s[k]]

\* the number of digits of s from position pos on
RECURSIVE DigitRun(_, _)
DigitRun(s, pos) ==
    IF pos <= Len(s) /\ IsDigits(<<s[pos]>>) THEN 1 + DigitRun(s, pos + 1) ELSE 0

\* the parts of a float without underscores and sign: inf, infinity or nan,
\* or n digits, at most one point, f digits (at least one digit in all) and
\* an exponent of at least one digit
NumeralParts(underscores, negative, body, lower, n) ==
    LET point == n + 1 <= Len(body) /\ body[n + 1] = "."
        f == IF point THEN DigitRun(body, n + 2) ELSE 0
        m == n + (IF point THEN 1 ELSE 0) + f
        exp == m + 1 <= Len(body) /\ body[m + 1] \in {"e", "E"}
        esigned == exp /\ m + 2 <= Len(body) /\ body[m + 2] \in {"+", "-"}
        e0 == m + (IF esigned THEN 3 ELSE 2)
        x == IF exp THEN DigitRun(body, e0) ELSE 0
        word == IF lower \in {<<"i", "n", "f">>,
                              <<"i", "n", "f", "i", "n", "i", "t", "y">>}
                THEN "inf"
                ELSE IF lower = <<"n", "a", "n">> THEN "nan" ELSE ""
    IN  [ok |-> /\ underscores
                /\ \/ word # ""
                   \/ /\ n + f > 0
                      /\ exp => x > 0
                      /\ (IF exp THEN e0 + x - 1 ELSE m) = Len(body),
         negative |-> negative,
         special |-> word,
         int |-> SubSeq(body, 1, n),
         frac |-> IF point THEN SubSeq(body, n + 2, n + 1 + f) ELSE <<>>,
         exponent_negative |-> esigned /\ body[m + 2] = "-",
         exponent |-> IF exp THEN SubSeq(body, e0, e0 + x - 1) ELSE <<>>]

\* the parts of a float that is ASCII and stripped: every underscore stands
\* between two digits, and a sign comes first
SignedParts(t, u) ==
    LET signed == u # <<>> /\ u[1] \in {"+", "-"}
    IN  NumeralParts(\A k \in 1..Len(t) :
                        t[k] = "_" => /\ k > 1 /\ k < Len(t)
                                      /\ IsDigits(<<t[k - 1]>>)
                                      /\ IsDigits(<<t[k + 1]>>),
                     signed /\ u[1] = "-",
                     IF signed THEN Tail(u) ELSE u,
                     Lower(IF signed THEN Tail(u) ELSE u),
                     DigitRun(IF signed THEN Tail(u) ELSE u, 1))

\* the parts of the text of a float, as float() reads them
FloatParts(tok) ==
    SignedParts(CStrip(TransformDecimalAndSpaceToASCII(tok)),
                SelectSeq(CStrip(TransformDecimalAndSpaceToASCII(tok)),
                          LAMBDA c : c # "_"))

\* whether float(tok) succeeds; when it does not np.array raises ValueError
IsFloat(tok) == FloatParts(tok).ok

\* a float: the sign, the significant decimal digits d1 d2 ... (no zero at
\* either end) and the exponent of the value 0.d1d2... * 10^exponent; inf and
\* nan by name.  A finite value is kept as the decimal numeral it was read
\* from, which names one double as long as it has at most 15 significant
\* digits.
FloatValue(sign, digits, exponent, special) ==
    [sign |-> sign, digits |-> digits, exponent |-> exponent, special |-> special]

\* 0.0
Zero == FloatValue(1, <<>>, 0, "")

\* x == 0.
IsZero(x) == x.special = "" /\ x.digits = <<>>

\* the first 21 digits of the least numeral that float() rounds to inf,
\* 2^1024 - 2^970 = 0.179769...e309, and of the greatest it rounds to 0.0,
\* 2^-1075 = 0.247032...e-323
OverflowFrom ==
    <<1, 7, 9, 7, 6, 9, 3, 1, 3, 4, 8, 6, 2, 3, 1, 5, 8, 0, 7, 9, 3>>

UnderflowUpTo ==
    <<2, 4, 7, 0, 3, 2, 8, 2, 2, 9, 2, 0, 6, 2, 3, 2, 7, 2, 0, 8, 8>>

\* 0.a <= 0.b for two sequences of digits
RECURSIVE FractionLeq(_, _)
FractionLeq(a, b) ==
    IF a = <<>> THEN TRUE
    ELSE IF b = <<>> THEN \A k \in 1..Len(a) : a[k] = 0
    ELSE IF a[1] # b[1] THEN a[1] < b[1]
    ELSE FractionLeq(Tail(a), Tail(b))

\* the exponent a float is written with, of at most seven digits once its
\* leading zeros are dropped (a longer one counts 1000000)
RECURSIVE Written(_, _)
Written(exponent_negative, exponent) ==
    IF exponent # <<>> /\ exponent[1] = "0"
    THEN Written(exponent_negative, Tail(exponent))
    ELSE IF Len(exponent) > 6
    THEN (IF exponent_negative THEN 0 - 1000000 ELSE 1000000)
    ELSE (IF exponent_negative THEN 0 - IntOf(exponent) ELSE IntOf(exponent))

\* the float of the value 0.digits * 10^exponent: inf from the overflow
\* limit on, zero up to the underflow limit
Rounded(sign, digits, exponent) ==
    IF exponent > 309 \/ (exponent = 309 /\ ~FractionLeq(digits, OverflowFrom))
    THEN FloatValue(sign, <<>>, 0, "inf")
    ELSE IF exponent < -323 \/ (exponent = -323 /\ FractionLeq(digits, UnderflowUpTo))
    THEN FloatValue(sign, <<>>, 0, "")
    ELSE FloatValue(sign, digits, exponent, "")

\* the float with the digits mantissa before the exponent: the zeros at
\* both ends of the digits do not count
Significant(sign, mantissa, exponent) ==
    IF \A k \in 1..Len(mantissa) : mantissa[k] = 0
    THEN FloatValue(sign, <<>>, 0, "")
    ELSE Rounded(sign,
                 SubSeq(mantissa, Min({k \in 1..Len(mantissa) : mantissa[k] # 0}),
                                  Max({k \in 1..Len(mantissa) : mantissa[k] # 0})),
                 exponent - (Min({k \in 1..Len(mantissa) : mantissa[k] # 0}) - 1))

\* the float of the parts p
FloatOf(p) ==
    IF p.special = "nan" THEN FloatValue(1, <<>>, 0, "nan")
    ELSE IF p.special = "inf"
    THEN FloatValue(IF p.negative THEN -1 ELSE 1, <<>>, 0, "inf")
    ELSE Significant(IF p.negative THEN -1 ELSE 1,
                     [k \in 1..(Len(p.int) + Len(p.frac)) |->
                         DecimalValue((p.int \o p.frac)[k])],
                     Len(p.int) + Written(p.exponent_negative, p.exponent))

\* float(tok) of a text float() accepts (numerals of up to 21 significant
\* digits)
ToFloat(tok) == FloatOf(FloatParts(tok))

\* np.trim_zeros(a, trim="b") with every trailing zero kept
TrimZerosNone(a) == a

\* a trim that drops every zero of the array, the interior ones included
TrimZerosAll(a) == SelectSeq(a, LAMBDA x : ~IsZero(x))

\* np.trim_zeros(a, trim="fb"): the zeros of both ends removed
RECURSIVE TrimZerosBoth(_)
TrimZerosBoth(a) ==
    IF a = <<>> THEN <<>>
    ELSE IF IsZero(a[Len(a)]) THEN TrimZerosBoth(SubSeq(a, 1, Len(a) - 1))
    ELSE IF IsZero(a[1]) THEN TrimZerosBoth(Tail(a))
    ELSE a

\* line 143: np.trim_zeros(a, trim="b")
RECURSIVE TrimZeros(_)
TrimZeros(a) ==
    IF a = <<>> THEN <<>>
    ELSE IF IsZero(a[Len(a)]) THEN TrimZeros(SubSeq(a, 1, Len(a) - 1))
    ELSE a

\* the two-character alternatives of a directive of datetime.strptime, as
\* the regular expression of _strptime has them ("d" also takes a space and
\* a digit, after its one-digit alternative): a class such as [0-5] takes an
\* ASCII digit, \d any decimal digit
TwoChars(directive, a, b) ==
    LET x == IF IsDigits(<<a>>) THEN DecimalValue(a) ELSE 10
        y == IF IsDigits(<<b>>) THEN DecimalValue(b) ELSE 10
    IN  CASE directive = "%y" -> IsDecimal(a) /\ IsDecimal(b)
          [] directive = "%m" -> (x = 1 /\ y <= 2) \/ (x = 0 /\ y \in 1..9)
          [] directive = "%d" -> \/ x = 3 /\ y <= 1
                                 \/ x \in {1, 2} /\ IsDecimal(b)
                                 \/ x = 0 /\ y \in 1..9
          [] directive = "%H" -> (x = 2 /\ y <= 3) \/ (x <= 1 /\ IsDecimal(b))
          [] directive = "%M" -> x <= 5 /\ IsDecimal(b)
          [] directive = "%S" -> (x = 6 /\ y <= 1) \/ (x <= 5 /\ IsDecimal(b))

\* the one-digit alternative of a directive: \d for "H", "M" and "S", [1-9]
\* for "m" and "d"
OneChar(directive, a) ==
    CASE directive \in {"%H", "%M", "%S"} -> IsDecimal(a)
      [] directive \in {"%m", "%d"} -> IsDigits(<<a>>) /\ a # "0"
      [] OTHER -> FALSE

\* the ways the element of a format can match s from position pos on, in the
\* order the regular expression tries them: the number of characters taken
\* and the value read (a space of the format takes any run of whitespace)
Alternatives(element, s, pos) ==
    LET a == IF pos <= Len(s) THEN s[pos] ELSE ""
        b == IF pos + 1 <= Len(s) THEN s[pos + 1] ELSE ""
        run == CHOOSE n \in 0..Len(s) :
                  /\ \A k \in pos..(pos + n - 1) : k <= Len(s) /\ s[k] \in Whitespace
                  /\ pos + n > Len(s) \/ s[pos + n] \notin Whitespace
    IN  IF element = " " THEN [k \in 1..run |-> [width |-> run + 1 - k, value |-> 0]]
        ELSE IF element \notin {"%y", "%m", "%d", "%H", "%M", "%S"}
        THEN IF a = element THEN <<[width |-> 1, value |-> 0]>> ELSE <<>>
        ELSE (IF a # "" /\ b # "" /\ TwoChars(element, a, b)
              THEN <<[width |-> 2, value |-> IntOf(<<a, b>>)]>> ELSE <<>>)
             \o (IF a # "" /\ OneChar(element, a)
                 THEN <<[width |-> 1, value |-> IntOf(<<a>>)]>> ELSE <<>>)
             \o (IF element = "%d" /\ a = " " /\ b # "" /\ OneChar(element, b)
                 THEN <<[width |-> 2, value |-> IntOf(<<b>>)]>> ELSE <<>>)

\* re.match of the format's regular expression: the first way, in the order
\* of the alternatives, in which the elements from the k-th on match s from
\* pos on (c counts the alternatives of element k already tried)
RECURSIVE RegexMatch(_, _, _, _, _, _)
RegexMatch(format, k, s, pos, c, groups) ==
    LET try(alts) ==
            IF c > Len(alts) THEN [ok |-> FALSE, end |-> pos, groups |-> groups]
            ELSE LET rest == RegexMatch(format, k + 1, s, pos + alts[c].width, 1,
                                        Put(groups, format[k], alts[c].value))
                 IN  IF rest.ok THEN rest
                     ELSE RegexMatch(format, k, s, pos, c + 1, groups)
    IN  IF k > Len(format) THEN [ok |-> TRUE, end |-> pos, groups |-> groups]
        ELSE try(Alternatives(format[k], s, pos))

\* the days of a month of the Gregorian calendar
DaysInMonth(year, month) ==
    IF month = 2
    THEN IF year % 4 = 0 /\ (year % 100 # 0 \/ year % 400 = 0) THEN 29 ELSE 28
    ELSE IF month \in {4, 6, 9, 11} THEN 30 ELSE 31

MsgNotATime == "time data does not match format"
MsgUnconverted == "unconverted data remains"
MsgDayRange == "day is out of range for month"
MsgSecondRange == "second must be in 0..59"

\* datetime.strptime(s, format): the datetime, or the message of the
\* ValueError (without the data it quotes)
Strptime(s, format) ==
    LET get(groups, directive, default) ==
            IF directive \in DOMAIN groups THEN groups[directive] ELSE default
        century(yy) == IF yy < 69 THEN 2000 + yy ELSE 1900 + yy
        datetime(groups) ==
            [year |-> IF "%y" \in DOMAIN groups THEN century(groups["%y"]) ELSE 1900,
             month |-> get(groups, "%m", 1), day |-> get(groups, "%d", 1),
             hour |-> get(groups, "%H", 0), minute |-> get(groups, "%M", 0),
             second |-> get(groups, "%S", 0)]
        raise(msg, dt) == [ok |-> FALSE, message |-> msg, datetime |-> dt]
        check(m, dt) ==
            IF ~m.ok THEN raise(MsgNotATime, dt)
            ELSE IF m.end <= Len(s) THEN raise(MsgUnconverted, dt)
            ELSE IF dt.day > DaysInMonth(dt.year, dt.month) THEN raise(MsgDayRange, dt)
            ELSE IF dt.second > 59 THEN raise(MsgSecondRange, dt)
            ELSE [ok |-> TRUE, message |-> "", datetime |-> dt]
        matched(m) == check(m, datetime(m.groups))
    IN  matched(RegexMatch(format, 1, s, 1, 1, <<>>))

\* "%H:%M:%S", "%m/%d/%y" and "%m/%d/%y %H:%M:%S"
TimeFormat == <<"%H", ":", "%M", ":", "%S">>

DateFormat == <<"%m", "/", "%d", "/", "%y">>

DateTimeFormat == DateFormat \o <<" ">> \o TimeFormat

\* line 133: .time() of the datetime strptime returned
ToTime(dt) == TimeValue(dt.hour, dt.minute, dt.second)

\* line 131: .date() of the datetime strptime returned
ToDate(dt) ==
    [tag |-> "date", text |-> <<>>, items |-> <<>>, nums |-> <<>>,
     hms |-> <<dt.year, dt.month, dt.day>>]

\* session_lines[i - 1]: Python counts index -1 from the end of the list
PrevLine(sl, idx) == IF idx = 0 THEN sl[Len(sl)] ELSE sl[idx]

\* lines 113-119: one datum of a line of a multiline variable
Datum(piece) ==
    LET d == Strip(piece)
    IN  IF Contains(d, "\t") THEN Split(d, "\t")[1] ELSE d

\* lines 111-120: the data appended for one line of a multiline variable
Datums(data) ==
    LET pieces == SelectSeq(Split(data, " "), LAMBDA x : Strip(x) # <<>>)
    IN  [k \in 1..Len(pieces) |-> Datum(pieces[k])]

\* the state of the parsing loop: session_dict, multiline_variable_name, and
\* the exception that left the loop ("" for none)
ParseState(d, mvn, err) == [session_dict |-> d, mvn |-> mvn, error |-> err]

\* ParseMultiline whose index-0 line keeps the current variable when the
\* header before it is not in the field map
ParseMultilineKeepName(sl, fmap, idx, st, medpc_name, data) ==
    LET first == medpc_name = ZeroIndexLabel
        header == Split(PrevLine(sl, idx), ":")[1]
        mvn == IF first /\ (HasKey(fmap, header) \/ ~st.mvn.bound)
               THEN [bound |-> TRUE, name |-> header]
               ELSE st.mvn
        d1 == IF first /\ HasKey(fmap, header)
              THEN Put(st.session_dict, Lookup(fmap, header), ListValue(<<>>))
              ELSE st.session_dict
    IN  IF ~mvn.bound THEN ParseState(d1, mvn, "UnboundLocalError")
        ELSE IF ~HasKey(fmap, mvn.name) THEN ParseState(d1, mvn, "")
        ELSE LET name == Lookup(fmap, mvn.name)
                 new == Datums(data)
             IN  IF new = <<>> THEN ParseState(d1, mvn, "")
                 ELSE IF d1[name].tag # "list"
                 THEN ParseState(d1, mvn, "AttributeError")
                 ELSE ParseState(Put(d1, name, ListValue(d1[name].items \o new)),
                                 mvn, "")

\* lines 104-120: a line whose first colon is at column 6
ParseMultiline(sl, fmap, idx, st, medpc_name, data) ==
    LET first == medpc_name = ZeroIndexLabel
        mvn == IF first
               THEN [bound |-> TRUE, name |-> Split(PrevLine(sl, idx), ":")[1]]
               ELSE st.mvn
        d1 == IF first /\ HasKey(fmap, mvn.name)
              THEN Put(st.session_dict, Lookup(fmap, mvn.name), ListValue(<<>>))
              ELSE st.session_dict
    IN  IF ~mvn.bound THEN ParseState(d1, mvn, "UnboundLocalError")
        ELSE IF ~HasKey(fmap, mvn.name) THEN ParseState(d1, mvn, "")
        ELSE LET name == Lookup(fmap, mvn.name)
                 new == Datums(data)
             IN  IF new = <<>> THEN ParseState(d1, mvn, "")
                 ELSE IF d1[name].tag # "list"
                 THEN ParseState(d1, mvn, "AttributeError")
                 ELSE ParseState(Put(d1, name, ListValue(d1[name].items \o new)),
                                 mvn, "")

\* ParseBody without the test of line 98: a commented line is parsed
ParseBodyNoComment(sl, fmap, idx, st) ==
    LET line == RStrip(sl[idx + 1])
    IN  IF ~Contains(line, ":")
        THEN ParseState(st.session_dict, st.mvn, "AssertionError")
        ELSE LET split_line == SplitOnce(line, ":")
                 medpc_name == split_line[1]
                 data == Strip(split_line[2])
             IN  IF Find(line, ":") = ContinuationColumn
                 THEN ParseMultiline(sl, fmap, idx, st, medpc_name, data)
                 ELSE IF HasKey(fmap, medpc_name)
                 THEN ParseState(Put(st.session_dict, Lookup(fmap, medpc_name),
                                     StrValue(data)),
                                 st.mvn, "")
                 ELSE st

\* ParseBody without the assert of line 100: a line without a colon is
\* passed over
ParseBodyNoAssert(sl, fmap, idx, st) ==
    LET line == RStrip(sl[idx + 1])
    IN  IF StartsWith(line, CommentMark) THEN st
        ELSE IF ~Contains(line, ":") THEN st
        ELSE LET split_line == SplitOnce(line, ":")
                 medpc_name == split_line[1]
                 data == Strip(split_line[2])
             IN  IF Find(line, ":") = ContinuationColumn
                 THEN ParseMultiline(sl, fmap, idx, st, medpc_name, data)
                 ELSE IF HasKey(fmap, medpc_name)
                 THEN ParseState(Put(st.session_dict, Lookup(fmap, medpc_name),
                                     StrValue(data)),
                                 st.mvn, "")
                 ELSE st

\* lines 96-125: one iteration of the parsing loop on session_lines[idx]
ParseBody(sl, fmap, idx, st) ==
    LET line == RStrip(sl[idx + 1])
    IN  IF StartsWith(line, CommentMark) THEN st
        ELSE IF ~Contains(line, ":")
        THEN ParseState(st.session_dict, st.mvn, "AssertionError")
        ELSE LET split_line == SplitOnce(line, ":")
                 medpc_name == split_line[1]
                 data == Strip(split_line[2])
             IN  IF Find(line, ":") = ContinuationColumn
                 THEN ParseMultiline(sl, fmap, idx, st, medpc_name, data)
                 ELSE IF HasKey(fmap, medpc_name)
                 THEN ParseState(Put(st.session_dict, Lookup(fmap, medpc_name),
                                     StrValue(data)),
                                 st.mvn, "")
                 ELSE st

\* what read_medpc_file returns or raises
NoRecord == [kind |-> "none", message |-> "", field |-> "", record |-> <<>>]

ReturnRecord(d) == [kind |-> "returned", message |-> "", field |-> "", record |-> d]

RaiseRead(kind, msg, field) ==
    [kind |-> kind, message |-> msg, field |-> field, record |-> <<>>]

MsgNotMultiline == "Expected to be a multiline variable, but found a single line variable"
MsgNotAFloat == "could not convert string to float"
MsgNotAStr == "strptime() argument 1 must be str, not list"

\* ConvertOne without the test of line 135: an empty string is handled as any
\* other string
ConvertOneNoEmpty(d, dict_name, data_type) ==
    IF dict_name \notin DOMAIN d THEN ReturnRecord(d)
    ELSE LET v == d[dict_name]
             date(parsed) ==
                 IF ~parsed.ok THEN RaiseRead("ValueError", parsed.message, "")
                 ELSE ReturnRecord(Put(d, dict_name, ToDate(parsed.datetime)))
             time(parsed) ==
                 IF ~parsed.ok THEN RaiseRead("ValueError", parsed.message, "")
                 ELSE ReturnRecord(Put(d, dict_name, ToTime(parsed.datetime)))
         IN  IF data_type = "date"
             THEN IF v.tag # "str" THEN RaiseRead("TypeError", MsgNotAStr, "")
                  ELSE date(Strptime(v.text, DateFormat))
             ELSE IF data_type = "time"
             THEN IF v.tag # "str" THEN RaiseRead("TypeError", MsgNotAStr, "")
                  ELSE time(Strptime(v.text, TimeFormat))
             ELSE IF data_type = "ndarray"
             THEN IF v.tag = "str"
                  THEN RaiseRead("ValueError", MsgNotMultiline, dict_name)
                  ELSE IF \E k \in 1..Len(v.items) : ~IsFloat(v.items[k])
                  THEN RaiseRead("ValueError", MsgNotAFloat, "")
                  ELSE ReturnRecord(Put(d, dict_name,
                          ArrayValue(TrimZeros(
                              [k \in 1..Len(v.items) |-> ToFloat(v.items[k])]))))
             ELSE ReturnRecord(d)

\* lines 129-145: the conversion of one entry of dict_name_to_type
ConvertOne(d, dict_name, data_type) ==
    IF dict_name \notin DOMAIN d THEN ReturnRecord(d)
    ELSE LET v == d[dict_name]
             date(parsed) ==
                 IF ~parsed.ok THEN RaiseRead("ValueError", parsed.message, "")
                 ELSE ReturnRecord(Put(d, dict_name, ToDate(parsed.datetime)))
             time(parsed) ==
                 IF ~parsed.ok THEN RaiseRead("ValueError", parsed.message, "")
                 ELSE ReturnRecord(Put(d, dict_name, ToTime(parsed.datetime)))
         IN  IF data_type = "date"
             THEN IF v.tag # "str" THEN RaiseRead("TypeError", MsgNotAStr, "")
                  ELSE date(Strptime(v.text, DateFormat))
             ELSE IF data_type = "time"
             THEN IF v.tag # "str" THEN RaiseRead("TypeError", MsgNotAStr, "")
                  ELSE time(Strptime(v.text, TimeFormat))
             ELSE IF data_type = "ndarray"
             THEN IF v = StrValue(<<>>)
                  THEN ReturnRecord(Put(d, dict_name, ArrayValue(<<>>)))
                  ELSE IF v.tag = "str"
                  THEN RaiseRead("ValueError", MsgNotMultiline, dict_name)
                  ELSE IF \E k \in 1..Len(v.items) : ~IsFloat(v.items[k])
                  THEN RaiseRead("ValueError", MsgNotAFloat, "")
                  ELSE ReturnRecord(Put(d, dict_name,
                          ArrayValue(TrimZeros(
                              [k \in 1..Len(v.items) |-> ToFloat(v.items[k])]))))
             ELSE ReturnRecord(d)

\* lines 128-146: the conversion loop from entry k of dict_name_to_type on
RECURSIVE Convert(_, _, _)
Convert(d, types, k) ==
    IF k > Len(types) THEN ReturnRecord(d)
    ELSE LET r == ConvertOne(d, types[k][1], types[k][2])
         IN  IF r.kind # "returned" THEN r ELSE Convert(r.record, types, k + 1)

\* ParseInit that keeps what the previous call left in session_dict and
\* multiline_variable_name (module-level state in the place of locals)
ParseInitKept == ParseState(session_dict, multiline_variable_name, "")

\* line 95: session_dict = {}, and multiline_variable_name not yet assigned
ParseInit == ParseState(<<>>, Unbound, "")

\* lines 96-125: the parsing loop from line idx on; an exception leaves it
RECURSIVE RunParse(_, _, _, _)
RunParse(sl, fmap, idx, st) ==
    IF idx >= Len(sl) \/ st.error # "" THEN st
    ELSE RunParse(sl, fmap, idx + 1, ParseBody(sl, fmap, idx, st))

\* lines 95-146: what read_medpc_file makes of the lines of the session
ReadSessionLines(sl, fmap, types) ==
    LET st == RunParse(sl, fmap, 0, ParseInit)
    IN  IF st.error # "" THEN RaiseRead(st.error, "", "")
        ELSE Convert(st.session_dict, types, 1)

\* read_medpc_file(file_path, medpc_name_to_dict_name, dict_name_to_type,
\* session_conditions, start_variable) on a file with the lines ls
ReadMedpcFile(ls, fmap, types, conds, sv) ==
    LET r == GetSessionLines(ls, conds, sv)
    IN  IF r.kind # "returned" THEN RaiseRead(r.kind, r.message, "")
        ELSE ReadSessionLines(r.session_lines, fmap, types)

(***************************************************************************)
(* get_medpc_variables                                                     *)
(***************************************************************************)
\* what get_medpc_variables returns or raises
NoVariables == [kind |-> "none", values |-> <<>>]

\* line 23: {name: [] for name in variable_names}
EmptyLists(names) == [name \in {names[k] : k \in 1..Len(names)} |-> <<>>]

\* the state of the loop over the lines: medpc_variables, and the exception
\* that left the loop ("" for none)
VariablesState(mv, err) == [medpc_variables |-> mv, error |-> err]

\* lines 25-27: the loop over variable_names for one line, from name k on
RECURSIVE VariablesBody(_, _, _, _)
VariablesBody(line, names, k, st) ==
    IF k > Len(names) \/ st.error # "" THEN st
    ELSE IF ~StartsWith(line, names[k])
    THEN VariablesBody(line, names, k + 1, st)
    ELSE LET parts == SplitOnce(line, ":")
         IN  IF Len(parts) < 2
             THEN VariablesState(st.medpc_variables, "IndexError")
             ELSE VariablesBody(line, names, k + 1,
                      VariablesState(
                          [st.medpc_variables EXCEPT
                              ![names[k]] = Append(@, Strip(parts[2]))],
                          ""))

Locals == [start_line |-> start_line, end_line |-> end_line, met |-> met,
           broke |-> FALSE]

Init ==
    /\ lines \in LocateFiles
    /\ session_conditions \in LocateConditions
    /\ start_variable = NameS
    /\ i = 0
    /\ start_line = LoopInit(lines, session_conditions).start_line
    /\ end_line = LoopInit(lines, session_conditions).end_line
    /\ met = LoopInit(lines, session_conditions).met
    /\ pc = "scan"
    /\ result = NoResult
    /\ medpc_name_to_dict_name = <<>>
    /\ dict_name_to_type = <<>>
    /\ session_lines = <<>>
    /\ session_dict = <<>>
    /\ multiline_variable_name = Unbound
    /\ read_result = NoRecord
    /\ variable_names = <<>>
    /\ medpc_variables = <<>>
    /\ variables_result = NoVariables
    /\ calls = <<>>
    /\ ConversionIdle

\* one iteration of the for loop (lines 59-71)
ScanLine ==
    /\ pc = "scan"
    /\ i < Len(lines)
    /\ LET st == LoopBody(lines, session_conditions, start_variable, i, Locals)
       IN  /\ start_line' = st.start_line
           /\ end_line' = st.end_line
           /\ met' = st.met
           /\ pc' = IF st.broke THEN "after" ELSE "scan"
    /\ i' = i + 1
    /\ UNCHANGED <<lines, session_conditions, start_variable, result, readVars,
                   variablesVars, calls, datasetVars, ttlVars>>

\* the for loop runs out of lines
EndOfFile ==
    /\ pc = "scan"
    /\ i = Len(lines)
    /\ pc' = "after"
    /\ UNCHANGED <<lines, session_conditions, start_variable, i, start_line,
                   end_line, met, result, readVars,
                   variablesVars, calls, datasetVars, ttlVars>>

\* lines 72-79: raise or return
Finish ==
    /\ pc = "after"
    /\ result' = Outcome(lines, session_conditions, Locals)
    /\ pc' = "done"
    /\ UNCHANGED <<lines, session_conditions, start_variable, i, start_line,
                   end_line, met, readVars,
                   variablesVars, calls, datasetVars, ttlVars>>

Next == ScanLine \/ EndOfFile \/ Finish

Spec == Init /\ [][Next]_vars

(***************************************************************************)
(* read_medpc_file                                                         *)
(***************************************************************************)
NameT == <<"T">>
NameA == <<"A">>
NameB == <<"B">>
NameW == <<"W", "e", "i", "g", "h", "t">>

\* the header line of a multiline variable
Header(name) == NameColon(name) \o <<"\n">>

\* a line of a multiline variable: a right-justified index, then the data
Continuation(index, data) ==
    <<" ", " ", " ", " ", " ", index, ":">> \o data \o <<"\n">>

\* the lines that follow the first start marker of a file given to
\* read_medpc_file
ReadLines ==
    { BlankLine,
      Line(NameT, <<"1", ":", "2", ":", "3">>),
      Line(NameT, <<"\\u0663", ":", "4", ":", "5">>),
      Header(NameA),
      Header(NameB),
      Continuation("0", <<" ", " ", "0", " ", "2", ".", "5", " ", " ", "0">>),
      Continuation("5", <<" ", "0", " ", "3", "\t", "7", " ", "0", ".", "0">>),
      Continuation("5", <<" ", "4", "\t", "9", " ", "8">>),
      Continuation("5", <<" ", "4", " ", " ", "0">>),
      <<"\\", "c", "\n">>,
      <<"x", "\n">>,
      Line(NameW, <<"3">>),
      Line(NameA, <<"7">>) }

ReadFiles ==
    {<<Line(NameS, ValA)>> \o body :
        body \in UNION {[1..n -> ReadLines] : n \in 0..MaxBody}}

\* the session of the file, and (tried on the short files) a session that
\* is not in the file
ReadInputs ==
    {[lines |-> f, session_conditions |-> << <<NameS, ValA>> >>] : f \in ReadFiles}
    \cup
    {[lines |-> f, session_conditions |-> << <<NameS, ValB>> >>] :
        f \in {g \in ReadFiles : Len(g) <= 2}}

\* medpc_name_to_dict_name: B is a variable of the file the caller leaves out
ReadFieldMap ==
    << <<NameS, "start_date">>, <<NameT, "start_time">>, <<NameA, "a">>,
       <<NameW, "weight">> >>

\* dict_name_to_type
ReadTypeMaps ==
    { << <<"start_date", "date">>, <<"weight", "str">>, <<"a", "ndarray">> >>,
      << <<"start_time", "time">>, <<"a", "ndarray">> >> }

ReadInit ==
    /\ \E input \in ReadInputs :
          /\ lines = input.lines
          /\ session_conditions = input.session_conditions
    /\ start_variable = NameS
    /\ i = 0
    /\ start_line = NoLine
    /\ end_line = NoLine
    /\ met = <<>>
    /\ pc = "call"
    /\ result = NoResult
    /\ medpc_name_to_dict_name = ReadFieldMap
    /\ dict_name_to_type \in ReadTypeMaps
    /\ session_lines = <<>>
    /\ session_dict = <<>>
    /\ multiline_variable_name = Unbound
    /\ read_result = NoRecord
    /\ variable_names = <<>>
    /\ medpc_variables = <<>>
    /\ variables_result = NoVariables
    /\ calls = <<>>
    /\ ConversionIdle

\* line 92: the call of get_session_lines; its ValueError leaves the function
CallGetSessionLines ==
    /\ pc = "call"
    /\ result' = GetSessionLines(lines, session_conditions, start_variable)
    /\ IF result'.kind = "returned"
       THEN /\ session_lines' = result'.session_lines
            /\ pc' = "parse"
            /\ UNCHANGED read_result
       ELSE /\ read_result' = RaiseRead(result'.kind, result'.message, "")
            /\ pc' = "done"
            /\ UNCHANGED session_lines
    /\ UNCHANGED <<lines, session_conditions, start_variable, i, start_line,
                   end_line, met, medpc_name_to_dict_name, dict_name_to_type,
                   session_dict, multiline_variable_name,
                   variablesVars, calls, datasetVars, ttlVars>>

\* lines 96-125: one iteration of the parsing loop
ParseLine ==
    /\ pc = "parse"
    /\ i < Len(session_lines)
    /\ LET st == ParseBody(session_lines, medpc_name_to_dict_name, i,
                           ParseState(session_dict, multiline_variable_name, ""))
       IN  /\ session_dict' = st.session_dict
           /\ multiline_variable_name' = st.mvn
           /\ IF st.error # ""
              THEN /\ read_result' = RaiseRead(st.error, "", "")
                   /\ pc' = "done"
              ELSE /\ UNCHANGED read_result
                   /\ pc' = "parse"
    /\ i' = i + 1
    /\ UNCHANGED <<lines, session_conditions, start_variable, start_line,
                   end_line, met, result, medpc_name_to_dict_name,
                   dict_name_to_type, session_lines,
                   variablesVars, calls, datasetVars, ttlVars>>

\* the parsing loop runs out of lines
EndOfSession ==
    /\ pc = "parse"
    /\ i = Len(session_lines)
    /\ pc' = "convert"
    /\ UNCHANGED <<lines, session_conditions, start_variable, i, start_line,
                   end_line, met, result, readVars,
                   variablesVars, calls, datasetVars, ttlVars>>

\* lines 128-146: the conversion loop and the return; session_dict stays the
\* dict the parsing loop built, read_result.record is the dict returned
ConvertTypes ==
    /\ pc = "convert"
    /\ read_result' = Convert(session_dict, dict_name_to_type, 1)
    /\ pc' = "done"
    /\ UNCHANGED <<lines, session_conditions, start_variable, i, start_line,
                   end_line, met, result, medpc_name_to_dict_name,
                   dict_name_to_type, session_lines, session_dict,
                   multiline_variable_name,
                   variablesVars, calls, datasetVars, ttlVars>>

ReadNext == CallGetSessionLines \/ ParseLine \/ EndOfSession \/ ConvertTypes

SpecRead == ReadInit /\ [][ReadNext]_vars

(***************************************************************************)
(* The conversion of a parsed array alone (lines 141-145): the list of the  *)
(* strings of a multiline variable becomes an array of floats without its   *)
(* trailing zeros.                                                          *)
(***************************************************************************)
\* the strings the parsing loop may have appended for an array
TrimTokens ==
    {<<"0">>, <<"0", ".", "0">>, <<"-", "0">>, <<"3", ".", "1">>, <<"4", ".", "2">>}

TrimInit ==
    /\ lines = <<>>
    /\ session_conditions = <<>>
    /\ start_variable = NameS
    /\ i = 0
    /\ start_line = NoLine
    /\ end_line = NoLine
    /\ met = <<>>
    /\ pc = "convert"
    /\ result = NoResult
    /\ medpc_name_to_dict_name = << <<NameA, "a">> >>
    /\ dict_name_to_type = << <<"a", "ndarray">> >>
    /\ session_lines = <<>>
    /\ \E items \in UNION {[1..n -> TrimTokens] : n \in 0..MaxArray} :
          session_dict = Put(<<>>, "a", ListValue(items))
    /\ multiline_variable_name = Unbound
    /\ read_result = NoRecord
    /\ variable_names = <<>>
    /\ medpc_variables = <<>>
    /\ variables_result = NoVariables
    /\ calls = <<>>
    /\ ConversionIdle

SpecTrim == TrimInit /\ [][ConvertTypes]_vars

(***************************************************************************)
(* get_medpc_variables: one step for each line of the file.                *)
(***************************************************************************)
\* a label that begins with another label
NameSK == <<"S", "K">>

\* the lines a file given to get_medpc_variables is made of
VariableLines ==
    { Line(NameS, ValA),
      Line(NameS, ValB),
      Line(NameK, ValA),
      Line(NameSK, ValB),
      <<"S", "x", "\n">>,
      BlankLine,
      <<" ">> \o Line(NameS, ValA) }

VariableFiles == UNION {[1..n -> VariableLines] : n \in 0..MaxVariableLines}

\* the lists of variable names asked for
VariableNameLists ==
    { <<NameS>>, <<NameK>>, <<NameS, NameK>>, <<NameK, NameS>>, <<NameSK, NameS>> }

VariablesInit ==
    /\ lines \in VariableFiles
    /\ session_conditions = <<>>
    /\ start_variable = NameS
    /\ i = 0
    /\ start_line = NoLine
    /\ end_line = NoLine
    /\ met = <<>>
    /\ pc = "variables"
    /\ result = NoResult
    /\ medpc_name_to_dict_name = <<>>
    /\ dict_name_to_type = <<>>
    /\ session_lines = <<>>
    /\ session_dict = <<>>
    /\ multiline_variable_name = Unbound
    /\ read_result = NoRecord
    /\ variable_names \in VariableNameLists
    /\ medpc_variables = EmptyLists(variable_names)
    /\ variables_result = NoVariables
    /\ calls = <<>>
    /\ ConversionIdle

\* lines 24-27: one iteration of the loop over the lines; the IndexError of
\* line 27 leaves the function
ScanVariables ==
    /\ pc = "variables"
    /\ i < Len(lines)
    /\ LET st == VariablesBody(lines[i + 1], variable_names, 1,
                               VariablesState(medpc_variables, ""))
       IN  /\ medpc_variables' = st.medpc_variables
           /\ IF st.error # ""
              THEN /\ variables_result' = [kind |-> st.error, values |-> <<>>]
                   /\ pc' = "done"
              ELSE /\ UNCHANGED variables_result
                   /\ pc' = "variables"
    /\ i' = i + 1
    /\ UNCHANGED <<lines, session_conditions, start_variable, start_line,
                   end_line, met, result, readVars, variable_names, calls,
                   datasetVars, ttlVars>>

\* line 28: return medpc_variables
ReturnVariables ==
    /\ pc = "variables"
    /\ i = Len(lines)
    /\ variables_result' = [kind |-> "returned", values |-> medpc_variables]
    /\ pc' = "done"
    /\ UNCHANGED <<lines, session_conditions, start_variable, i, start_line,
                   end_line, met, result, readVars, variable_names,
                   medpc_variables, calls, datasetVars, ttlVars>>

VariablesNext == ScanVariables \/ ReturnVariables

SpecVariables == VariablesInit /\ [][VariablesNext]_vars

(***************************************************************************)
(* Successive calls of read_medpc_file on one file that holds two sessions. *)
(***************************************************************************)
\* the lines that follow the start marker of each of the two sessions
CallLines ==
    { Header(NameA),
      Continuation("0", <<" ", " ", "0", " ", "2", ".", "5", " ", " ", "0">>),
      Continuation("5", <<" ", "0", " ", "3", " ", "0", ".", "0">>) }

CallBodies == UNION {[1..n -> CallLines] : n \in 0..MaxCallBody}

\* session a, a blank line, session b
CallFiles ==
    {<<Line(NameS, ValA)>> \o b1 \o <<BlankLine, Line(NameS, ValB)>> \o b2 :
        b1 \in CallBodies, b2 \in CallBodies}

CallConditions == { << <<NameS, ValA>> >>, << <<NameS, ValB>> >> }

CallsInit ==
    /\ lines \in CallFiles
    /\ session_conditions = <<>>
    /\ start_variable = NameS
    /\ i = 0
    /\ start_line = NoLine
    /\ end_line = NoLine
    /\ met = <<>>
    /\ pc = "calls"
    /\ result = NoResult
    /\ medpc_name_to_dict_name = ReadFieldMap
    /\ dict_name_to_type \in ReadTypeMaps
    /\ session_lines = <<>>
    /\ session_dict = <<>>
    /\ multiline_variable_name = Unbound
    /\ read_result = NoRecord
    /\ variable_names = <<>>
    /\ medpc_variables = <<>>
    /\ variables_result = NoVariables
    /\ calls = <<>>
    /\ ConversionIdle

\* line 82: read_medpc_file is called for one of the sessions.  The call has
\* a frame of its own: whatever the call before it left in its locals, none
\* of them is bound when the call starts, and line 95 binds session_dict to
\* an empty dict.  Lines 90-91 read the lines of the file again.
BeginCall ==
    /\ pc = "calls"
    /\ Len(calls) < MaxCalls
    /\ \E conds \in CallConditions : session_conditions' = conds
    /\ i' = 0
    /\ result' = NoResult
    /\ session_lines' = <<>>
    /\ session_dict' = ParseInit.session_dict
    /\ multiline_variable_name' = ParseInit.mvn
    /\ read_result' = NoRecord
    /\ pc' = "call"
    /\ UNCHANGED <<lines, start_variable, start_line, end_line, met,
                   medpc_name_to_dict_name, dict_name_to_type, variablesVars,
                   calls, datasetVars, ttlVars>>

\* line 146, or the exception that ends the call: the caller has the record or
\* the error of the call; the model keeps the locals as the call left them
EndCall ==
    /\ pc = "done"
    /\ calls' = Append(calls, [session_conditions |-> session_conditions,
                               outcome |-> read_result])
    /\ pc' = "calls"
    /\ UNCHANGED <<lines, session_conditions, start_variable, i, start_line,
                   end_line, met, result, readVars, variablesVars,
                   datasetVars, ttlVars>>

\* the calls follow one another; each one runs through the steps of
\* read_medpc_file
CallsNext ==
    \/ BeginCall
    \/ CallGetSessionLines \/ ParseLine \/ EndOfSession \/ ConvertTypes
    \/ EndCall

SpecCalls == CallsInit /\ [][CallsNext]_vars

(***************************************************************************)
(* Properties of get_session_lines.  They are stated on the file itself    *)
(* (0-based line indices, as in the code), not on the flags of the loop.   *)
(***************************************************************************)
Indices == 0..(Len(lines) - 1)

Stripped(j) == Strip(lines[j + 1])

IsBlank(j) == Stripped(j) = <<>>

IsMarker(j) == StartsWith(Stripped(j), NameColon(start_variable))

\* line j is "key: value" for the c-th condition
MatchesCond(c, j) ==
    Stripped(j) = NameColonValue(session_conditions[c][1], session_conditions[c][2])

\* the index after the last blank line that precedes index e (0 if there is none)
BlockStart(e) ==
    LET B == {b \in Indices : b < e /\ IsBlank(b)}
    IN  IF B = {} THEN 0 ELSE Max(B) + 1

\* every condition is matched by a line with index in [lo, hi)
AllMatched(lo, hi) ==
    \A c \in 1..Len(session_conditions) : \E j \in lo..(hi - 1) : MatchesCond(c, j)

\* every condition is matched between the last blank line before e and e
SatisfiedAt(e) == AllMatched(BlockStart(e), e)

\* the blank lines that terminate a block satisfying every condition
SatisfyingBlanks == {e \in Indices : IsBlank(e) /\ SatisfiedAt(e)}

\* the last start marker with index in [lo, hi), NoLine if there is none
LastMarker(lo, hi) ==
    LET M == {j \in lo..(hi - 1) : IsMarker(j)}
    IN  IF M = {} THEN NoLine ELSE Max(M)

Returned == pc = "done" /\ result.kind = "returned"

RaisedWith(msg) == pc = "done" /\ result.kind = "ValueError" /\ result.message = msg

\* C1: the scan goes through the lines in order and stops at the first blank
\* line that closes a block in which every condition was matched; a returned
\* range ends at that blank line, never at a later one.
C1_StopsAtFirstSatisfyingBlank ==
    /\ pc = "scan" => \A e \in SatisfyingBlanks : i <= e
    /\ (pc \in {"after", "done"} /\ SatisfyingBlanks # {}) =>
          /\ i = Min(SatisfyingBlanks) + 1
          /\ end_line = Min(SatisfyingBlanks)
    /\ (Returned /\ SatisfyingBlanks # {}) =>
          /\ result.end = Min(SatisfyingBlanks)
          /\ result.session_lines =
                SubSeq(lines, result.start + 1, Min(SatisfyingBlanks))

C1_Witness ==
    /\ Returned
    /\ Cardinality(SatisfyingBlanks) >= 2
    /\ result.end = Min(SatisfyingBlanks)

\* C2: when a range [start, end) is returned, every condition was matched by
\* a line after the last blank line that precedes end, and the range lies
\* after that blank line too: lines of an earlier block never count.
C2_NoCrossSessionLeak ==
    Returned =>
        /\ AllMatched(BlockStart(result.end), result.end)
        /\ result.start >= BlockStart(result.end)

C2_Witness ==
    /\ Returned
    /\ Len(session_conditions) = 2
    /\ BlockStart(result.end) > 0
    /\ \E c \in 1..Len(session_conditions) :
          \E j \in 0..(BlockStart(result.end) - 1) : MatchesCond(c, j)

\* C3: when a range [start, end) is returned, every condition is matched by
\* a line with index in [start, end).
C3_ConditionsInsideReturnedRange ==
    Returned => AllMatched(result.start, result.end)

\* no block of the file (a run of lines up to a blank line or to the end of
\* the file) has a matching line for every condition
NoBlockSatisfies ==
    \A e \in {b \in Indices : IsBlank(b)} \cup {Len(lines)} : ~SatisfiedAt(e)

\* C4: if no block of the file satisfies all the conditions the call raises
\* the not-found error, which carries the supplied conditions, and returns
\* no lines.
C4_NotFoundWhenNoBlockSatisfies ==
    (pc = "done" /\ NoBlockSatisfies) =>
        /\ RaisedWith(MsgNoSession)
        /\ result.conditions = session_conditions
        /\ result.session_lines = <<>>

C4_Witness ==
    /\ RaisedWith(MsgNoSession)
    /\ NoBlockSatisfies
    /\ Len(session_conditions) >= 1
    /\ \E j \in Indices : IsMarker(j)
    /\ \A j \in Indices : ~MatchesCond(1, j)

\* C5: when no blank line stops the scan, the end of the file terminates the
\* last block: with every condition matched since the last blank line the
\* call returns the lines from the candidate start to the end of the file
\* (and raises the start-variable error when there is no candidate start);
\* otherwise it raises the not-found error.
C5_EndOfFileTerminates ==
    (pc = "done" /\ SatisfyingBlanks = {}) =>
        LET n == Len(lines)
            lo == BlockStart(n)
            cand == LastMarker(lo, n)
        IN  IF AllMatched(lo, n)
            THEN IF cand # NoLine
                 THEN /\ Returned
                      /\ result.start = cand
                      /\ result.end = n
                      /\ result.session_lines = SubSeq(lines, cand + 1, n)
                 ELSE RaisedWith(MsgNoStart)
            ELSE RaisedWith(MsgNoSession)

C5_Witness ==
    /\ Returned
    /\ Len(lines) >= 3
    /\ ~IsBlank(Len(lines) - 1)
    /\ BlockStart(Len(lines)) > 0
    /\ result.end = Len(lines)
    /\ Len(session_conditions) >= 1

\* some start marker has no blank line after it
UnterminatedMarker ==
    \E m \in Indices : IsMarker(m) /\ \A j \in (m + 1)..(Len(lines) - 1) : ~IsBlank(j)

\* C6 as stated: a start marker with no blank line after it makes the call
\* fail instead of returning a range.
C6_UnterminatedMarkerFails ==
    (pc = "done" /\ UnterminatedMarker) => result.kind # "returned"

\* C6 amended: a start marker with no blank line after it raises no
\* malformed-log error.  When no earlier blank line stops the scan, the call
\* returns the lines from the most recent start marker to the end of the file
\* if every condition was matched since the last blank line, and raises the
\* not-found error otherwise.
C6_UnterminatedMarkerReturnsToEOF ==
    (pc = "done" /\ UnterminatedMarker /\ SatisfyingBlanks = {}) =>
        LET n == Len(lines)
            lo == BlockStart(n)
        IN  /\ AllMatched(lo, n) =>
                /\ Returned
                /\ result.start = LastMarker(lo, n)
                /\ result.end = n
            /\ ~AllMatched(lo, n) => RaisedWith(MsgNoSession)

C6_Witness ==
    /\ Returned
    /\ UnterminatedMarker
    /\ SatisfyingBlanks = {}
    /\ result.end = Len(lines)
    /\ result.start = LastMarker(BlockStart(Len(lines)), Len(lines))

\* C7: with no conditions, a file that contains a start marker gives the
\* block that begins at the first start marker of the file.
C7_EmptyConditionsFromFirstMarker ==
    (pc = "done" /\ session_conditions = <<>> /\ (\E j \in Indices : IsMarker(j))) =>
        /\ Returned
        /\ result.start = Min({j \in Indices : IsMarker(j)})

\* the insertion orders of a dict
Orders(d) ==
    {q \in [1..Len(d) -> {d[k] : k \in 1..Len(d)}] :
        {q[k] : k \in 1..Len(d)} = {d[k] : k \in 1..Len(d)}}

\* the same returned lines, or the same error
SameOutcome(r1, r2) ==
    /\ r1.kind = r2.kind
    /\ r1.message = r2.message
    /\ r1.start = r2.start
    /\ r1.end = r2.end
    /\ r1.session_lines = r2.session_lines

\* C8: the conditions supplied in any other order give the same outcome on
\* the same lines.
C8_ConditionOrderIrrelevant ==
    pc = "done" =>
        \A q \in Orders(session_conditions) :
            SameOutcome(GetSessionLines(lines, q, start_variable), result)

C8_Witness ==
    /\ Returned
    /\ Len(session_conditions) = 2
    /\ Cardinality(Orders(session_conditions)) = 2
    /\ BlockStart(result.end) > 0

(***************************************************************************)
(* Properties of read_medpc_file, stated on the lines of the matched block *)
(* (0-based indices into session_lines).                                   *)
(***************************************************************************)
BlockIndices == 0..(Len(session_lines) - 1)

RLine(j) == RStrip(session_lines[j + 1])

IsComment(j) == StartsWith(RLine(j), CommentMark)

\* the column of the first colon of line j, -1 if it has none
ColonAt(j) == Find(RLine(j), ":")

\* the text before the first colon of line j
LabelOf(j) == SubSeq(RLine(j), 1, ColonAt(j))

\* the text after the first colon of line j, trimmed
ValueOf(j) == Strip(SubSeq(RLine(j), ColonAt(j) + 2, Len(RLine(j))))

\* a line that reaches the branch of the single line variables (line 123):
\* not a comment, and its first colon is not at the column of the lines of a
\* multiline variable
IsSingleLine(j) ==
    ~IsComment(j) /\ ColonAt(j) >= 0 /\ ColonAt(j) # ContinuationColumn

IsContinuation(j) == ~IsComment(j) /\ ColonAt(j) = ContinuationColumn

IsIndexZero(j) == IsContinuation(j) /\ LabelOf(j) = ZeroIndexLabel

\* the label of the line just before line z
HeaderBefore(z) == Split(PrevLine(session_lines, z), ":")[1]

\* the index-0 lines that start the array of a label
StartsOf(label) == {z \in BlockIndices : IsIndexZero(z) /\ HeaderBefore(z) = label}

\* the declared type of an output name ("" when none is declared)
TypeOf(name) ==
    IF HasKey(dict_name_to_type, name) THEN Lookup(dict_name_to_type, name) ELSE ""

RecordReturned == pc = "done" /\ read_result.kind = "returned"

\* single line j is the last line that writes the output name of its label
LastWrite(j) ==
    /\ \A k \in BlockIndices : (k > j /\ IsSingleLine(k)) => LabelOf(k) # LabelOf(j)
    /\ \A z \in StartsOf(LabelOf(j)) : z < j

\* a scalar line whose label is in the field map: a line that is not a
\* comment, whatever the length of its label, whose label is a key of
\* medpc_name_to_dict_name with an output name that is not declared an array
IsScalarLine(j) ==
    /\ ~IsComment(j)
    /\ ColonAt(j) >= 0
    /\ HasKey(medpc_name_to_dict_name, LabelOf(j))
    /\ TypeOf(Lookup(medpc_name_to_dict_name, LabelOf(j))) # "ndarray"

\* C9: a scalar line whose label is in the field map stores, under the mapped
\* name, the trimmed text after its first colon (later colons included); the
\* returned record holds that string for the last such line of a label when
\* the name has no declared date or time type.
C9_ScalarStoredAfterFirstColon ==
    /\ (pc = "parse" /\ i > 0 /\ IsScalarLine(i - 1)) =>
          LET name == Lookup(medpc_name_to_dict_name, LabelOf(i - 1))
          IN  /\ name \in DOMAIN session_dict
              /\ session_dict[name] = StrValue(ValueOf(i - 1))
    /\ RecordReturned =>
          \A j \in BlockIndices :
              (IsScalarLine(j) /\ LastWrite(j)) =>
                 LET name == Lookup(medpc_name_to_dict_name, LabelOf(j))
                 IN  TypeOf(name) \notin {"date", "time"} =>
                        /\ name \in DOMAIN read_result.record
                        /\ read_result.record[name] = StrValue(ValueOf(j))

\* the lines of the array a label starts at index-0 line z: the lines of a
\* multiline variable from z up to the next index-0 line
ArrayLines(z) ==
    {j \in BlockIndices :
        /\ j >= z
        /\ IsContinuation(j)
        /\ \A y \in BlockIndices : (y > z /\ y <= j) => ~IsIndexZero(y)}

\* the non-empty tokens a text has between its whitespace
RECURSIVE WhitespaceTokens(_)
WhitespaceTokens(t) ==
    IF t = <<>> THEN <<>>
    ELSE IF t[1] \in Whitespace THEN WhitespaceTokens(Tail(t))
    ELSE LET stops == {k \in 1..Len(t) : t[k] \in Whitespace}
             n == IF stops = {} THEN Len(t) ELSE Min(stops) - 1
         IN  <<SubSeq(t, 1, n)>> \o WhitespaceTokens(SubSeq(t, n + 1, Len(t)))

\* a token up to its first tab
CutAtTab(t) == IF Contains(t, "\t") THEN SubSeq(t, 1, Find(t, "\t")) ELSE t

\* the non-empty tokens a text has between its spaces, each trimmed and cut at
\* its first tab
SpaceTokens(t) ==
    LET pieces == SelectSeq(Split(t, " "), LAMBDA x : Strip(x) # <<>>)
    IN  [k \in 1..Len(pieces) |-> CutAtTab(Strip(pieces[k]))]

\* the tokens of the lines of js from line j on, in file order
RECURSIVE TokensFrom(_, _, _)
TokensFrom(Tokens(_), js, j) ==
    IF j >= Len(session_lines) THEN <<>>
    ELSE (IF j \in js THEN Tokens(ValueOf(j)) ELSE <<>>)
         \o TokensFrom(Tokens, js, j + 1)

\* the longest prefix of a that is empty or ends in a non-zero element
TrimmedPrefix(a) == SubSeq(a, 1, Max({k \in 0..Len(a) : k = 0 \/ ~IsZero(a[k])}))

Floats(tokens) == [k \in 1..Len(tokens) |-> ToFloat(tokens[k])]

\* a requested array field: a label of the field map with the array type,
\* whose array starts in the block and is not overwritten by a later scalar
\* line of the label
RequestedArrays ==
    {f \in 1..Len(medpc_name_to_dict_name) :
        /\ TypeOf(medpc_name_to_dict_name[f][2]) = "ndarray"
        /\ StartsOf(medpc_name_to_dict_name[f][1]) # {}
        /\ \A k \in BlockIndices :
              (IsSingleLine(k) /\ LabelOf(k) = medpc_name_to_dict_name[f][1]) =>
                 k < Max(StartsOf(medpc_name_to_dict_name[f][1]))}

\* the array a requested field is claimed to hold, for a way to cut a line
\* into tokens
ExpectedArray(Tokens(_), f) ==
    LET z == Max(StartsOf(medpc_name_to_dict_name[f][1]))
    IN  TrimmedPrefix(Floats(TokensFrom(Tokens, ArrayLines(z), z)))

ArrayIs(Tokens(_), f) ==
    LET name == medpc_name_to_dict_name[f][2]
    IN  /\ name \in DOMAIN read_result.record
        /\ read_result.record[name].tag = "ndarray"
        /\ read_result.record[name].nums = ExpectedArray(Tokens, f)

TabFreeArrays ==
    {f \in RequestedArrays :
        \A j \in ArrayLines(Max(StartsOf(medpc_name_to_dict_name[f][1]))) :
            ~Contains(RLine(j), "\t")}

TokensBeforeTab(t) == SpaceTokens(CutAtTab(t))

\* C11: on the lines of a requested array everything from the first tab of a
\* line on is discarded: the array is made of the tokens that precede the
\* first tab of each line, and no text after that tab gives an element.
C11_NothingAfterFirstTab ==
    RecordReturned => \A f \in RequestedArrays : ArrayIs(TokensBeforeTab, f)

\* the iteration of the parsing loop that is about to run is on a commented
\* line
AtComment == pc = "parse" /\ i < Len(session_lines) /\ IsComment(i)

\* C12: the iteration of the parsing loop on a line that begins with a
\* backslash raises nothing, adds no key to session_dict and changes none of
\* its values (nor the current multiline variable), colon or no colon.
C12_CommentLineSkipped ==
    [][AtComment =>
          /\ pc' = "parse"
          /\ read_result' = read_result
          /\ session_dict' = session_dict
          /\ multiline_variable_name' = multiline_variable_name]_vars

C12_Witness ==
    /\ pc = "parse"
    /\ i > 0
    /\ IsComment(i - 1)
    /\ ~Contains(RLine(i - 1), ":")
    /\ Cardinality(DOMAIN session_dict) >= 2
    /\ multiline_variable_name.bound

\* a line of the matched block that is not commented and has no colon
ColonlessLines == {j \in BlockIndices : ~IsComment(j) /\ ColonAt(j) = -1}

\* C13: when a line of the matched block that is not a comment has no colon,
\* the call never reaches the conversion: it ends with an error and gives no
\* record, wherever the line stands in the block.
C13_LineWithoutColonFails ==
    /\ pc = "convert" => ColonlessLines = {}
    /\ (pc = "done" /\ result.kind = "returned" /\ ColonlessLines # {}) =>
          /\ read_result.kind \notin {"none", "returned"}
          /\ read_result.record = <<>>

C13_Witness ==
    /\ pc = "done"
    /\ read_result.kind = "AssertionError"
    /\ read_result.record = <<>>
    /\ ColonlessLines = {Len(session_lines) - 1}
    /\ Len(session_lines) >= 3
    /\ Cardinality(DOMAIN session_dict) >= 2

\* the output names of the field map
OutputNames == {medpc_name_to_dict_name[f][2] : f \in 1..Len(medpc_name_to_dict_name)}

\* a line of a multiline variable whose label is an index: spaces and digits
IsIndexLine(j) ==
    /\ IsContinuation(j)
    /\ \A k \in 1..Len(LabelOf(j)) : LabelOf(j)[k] = " " \/ IsDigits(<<LabelOf(j)[k]>>)

\* the index-0 lines at or before line j
StartsUpTo(j) == {z \in BlockIndices : z <= j /\ IsIndexZero(z)}

\* the lines of the labels the field map leaves out: their single lines, and
\* the index lines of the multiline variables they head
UnrequestedLines ==
    {j \in BlockIndices :
        \/ IsSingleLine(j) /\ ~HasKey(medpc_name_to_dict_name, LabelOf(j))
        \/ /\ IsIndexLine(j)
           /\ StartsUpTo(j) # {}
           /\ ~HasKey(medpc_name_to_dict_name, HeaderBefore(Max(StartsUpTo(j))))}

\* the lines of the matched block from line j on, those of js left out
RECURSIVE Without(_, _)
Without(js, j) ==
    IF j >= Len(session_lines) THEN <<>>
    ELSE (IF j \in js THEN <<>> ELSE <<session_lines[j + 1]>>) \o Without(js, j + 1)

\* C14: the keys of a returned record are output names of the field map, and
\* the record is the one the block gives with the lines of the unrequested
\* labels taken out.
C14_UnrequestedLabelsSkipped ==
    RecordReturned =>
        /\ DOMAIN read_result.record \subseteq OutputNames
        /\ ReadSessionLines(Without(UnrequestedLines, 0), medpc_name_to_dict_name,
                            dict_name_to_type) = read_result

\* the labels of the lines of the matched block that are not commented
LabelsFound ==
    {LabelOf(j) : j \in {k \in BlockIndices : ~IsComment(k) /\ ColonAt(k) >= 0}}

\* C15: a returned record has a key for every output name of the field map
\* whose label is the label of a line of the matched block that is not
\* commented, whatever the length of the label.
C15_FoundLabelsPresent ==
    RecordReturned =>
        \A f \in 1..Len(medpc_name_to_dict_name) :
            medpc_name_to_dict_name[f][1] \in LabelsFound =>
                medpc_name_to_dict_name[f][2] \in DOMAIN read_result.record

\* the headers of declared arrays that stand in the block with an empty value
\* and no line of a multiline variable after them: single lines that are the
\* last write of their label
EmptyArrayHeaders ==
    {j \in BlockIndices :
        /\ IsSingleLine(j)
        /\ HasKey(medpc_name_to_dict_name, LabelOf(j))
        /\ TypeOf(Lookup(medpc_name_to_dict_name, LabelOf(j))) = "ndarray"
        /\ ValueOf(j) = <<>>
        /\ LastWrite(j)
        /\ (j + 1) \in BlockIndices => ~IsContinuation(j + 1)}

\* C16: a declared array whose header has an empty value and no continuation
\* lines is converted without error, and is the array of length zero in the
\* returned record.
C16_EmptyHeaderGivesEmptyArray ==
    /\ pc = "convert" =>
          \A j \in EmptyArrayHeaders :
              LET name == Lookup(medpc_name_to_dict_name, LabelOf(j))
              IN  /\ name \in DOMAIN session_dict
                  /\ session_dict[name] = StrValue(<<>>)
                  /\ ConvertOne(session_dict, name, "ndarray") =
                        ReturnRecord(Put(session_dict, name, ArrayValue(<<>>)))
    /\ RecordReturned =>
          \A j \in EmptyArrayHeaders :
              LET name == Lookup(medpc_name_to_dict_name, LabelOf(j))
              IN  /\ name \in DOMAIN read_result.record
                  /\ read_result.record[name] = ArrayValue(<<>>)
                  /\ Len(read_result.record[name].nums) = 0

C16_Witness ==
    /\ RecordReturned
    /\ \E j \in EmptyArrayHeaders : LabelOf(j) = NameA
    /\ session_dict["a"] = StrValue(<<>>)
    /\ read_result.record["a"] = ArrayValue(<<>>)

(***************************************************************************)
(* Properties of the trimming of trailing zeros.                           *)
(***************************************************************************)
\* the array of floats the conversion is given, and the array it returns
ParsedArray == Floats(session_dict["a"].items)

TrimmedArray == read_result.record["a"].nums

F31 == ToFloat(<<"3", ".", "1">>)

F42 == ToFloat(<<"4", ".", "2">>)

\* trimmed is a prefix of parsed, is empty or ends in a non-zero element, and
\* every element of parsed beyond it is zero
MaximalRunTrimmed(parsed, trimmed) ==
    /\ Len(trimmed) <= Len(parsed)
    /\ trimmed = SubSeq(parsed, 1, Len(trimmed))
    /\ trimmed = <<>> \/ ~IsZero(trimmed[Len(trimmed)])
    /\ \A k \in (Len(trimmed) + 1)..Len(parsed) : IsZero(parsed[k])
    /\ parsed = <<F31, F42, Zero, Zero>> => trimmed = <<F31, F42>>
    /\ parsed = <<Zero, Zero, Zero>> => trimmed = <<>>
    /\ parsed = <<Zero, F31, Zero>> => trimmed = <<Zero, F31>>

\* C17: the trimmed array is a prefix of the parsed one, is empty or ends in
\* a non-zero element, and everything it drops is zero; so [3.1, 4.2, 0, 0]
\* gives [3.1, 4.2], [0, 0, 0] gives [] and [0, 3.1, 0] gives [0, 3.1].
C17_TrimsMaximalRunOfTrailingZeros ==
    (pc = "done" /\ session_dict["a"].tag = "list") =>
        /\ read_result.kind = "returned"
        /\ MaximalRunTrimmed(ParsedArray, TrimmedArray)

C17_Witness ==
    /\ pc = "done"
    /\ session_dict["a"].items = << <<"0">>, <<"3", ".", "1">>, <<"0", ".", "0">>, <<"0">> >>
    /\ read_result.kind = "returned"
    /\ TrimmedArray = <<Zero, F31>>

(***************************************************************************)
(* Properties of the conversion of read_medpc_file.                        *)
(***************************************************************************)
\* the parsing loop went through every line of the block without an error
ParseCompleted ==
    /\ result.kind = "returned"
    /\ \/ pc = "convert"
       \/ /\ pc = "done"
          /\ read_result.kind \notin {"AssertionError", "UnboundLocalError",
                                      "AttributeError"}

\* the parsed fields whose shape is not the declared one: a declared array
\* that a non-empty scalar line populated, a declared scalar that the lines
\* of a multiline variable populated
ShapeMismatches ==
    {name \in DOMAIN session_dict :
        \/ /\ TypeOf(name) = "ndarray"
           /\ session_dict[name].tag = "str"
           /\ session_dict[name].text # <<>>
        \/ /\ TypeOf(name) \in {"str", "date", "time"}
           /\ session_dict[name].tag = "list"}

\* C18: when the shape of a parsed field is not the declared one, in either
\* direction, the call fails with an error that names such a field and
\* returns no record.
C18_ShapeMismatchNamesField ==
    (pc = "done" /\ ParseCompleted /\ ShapeMismatches # {}) =>
        /\ read_result.kind # "returned"
        /\ read_result.field \in ShapeMismatches
        /\ read_result.record = <<>>

(***************************************************************************)
(* Properties of get_medpc_variables.                                      *)
(***************************************************************************)
\* the trimmed values, in file order from line j on, of the lines that begin
\* with the name followed by a colon
RECURSIVE ValuesOf(_, _)
ValuesOf(name, j) ==
    IF j >= Len(lines) THEN <<>>
    ELSE (IF StartsWith(lines[j + 1], NameColon(name))
          THEN <<Strip(SubSeq(lines[j + 1], Len(name) + 2, Len(lines[j + 1])))>>
          ELSE <<>>)
         \o ValuesOf(name, j + 1)

\* C19: the call returns, and gives for each requested name the trimmed
\* values, in file order, of exactly the lines that begin with the name
\* followed by a colon; a line that begins with the name followed by another
\* character is not counted and does not make the call fail.
C19_ValuesOfLinesWithNameColon ==
    pc = "done" =>
        /\ variables_result.kind = "returned"
        /\ \A k \in 1..Len(variable_names) :
              variables_result.values[variable_names[k]] = ValuesOf(variable_names[k], 0)

(***************************************************************************)
(* Properties of successive calls of read_medpc_file.                      *)
(***************************************************************************)
\* C20: on the same lines, field map and types, any two calls with the same
\* session conditions give the same record or the same error, whatever
\* sessions were read before or between them.
C20_SameArgumentsSameOutcome ==
    \A m \in 1..Len(calls) : \A n \in 1..Len(calls) :
        calls[m].session_conditions = calls[n].session_conditions =>
            calls[m].outcome = calls[n].outcome

C20_Witness ==
    /\ Len(calls) = 3
    /\ calls[1].session_conditions = calls[3].session_conditions
    /\ calls[2].session_conditions # calls[1].session_conditions
    /\ calls[1].outcome.kind = "UnboundLocalError"
    /\ calls[2].outcome.kind = "returned"
    /\ "a" \in DOMAIN calls[2].outcome.record
    /\ multiline_variable_name = Unbound

\* C22: a returned range starts at the most recent start marker that
\* precedes the terminating line (the blank line that ends the range, or the
\* end of the file): no start marker stands between the start and the end,
\* and the start does not lie before a blank line that precedes the end.
C22_StartIsMostRecentMarker ==
    Returned =>
        /\ IsMarker(result.start)
        /\ result.start = LastMarker(0, result.end)
        /\ result.start >= BlockStart(result.end)
        /\ \A b \in result.start..(result.end - 1) : ~IsBlank(b)

C22_Witness ==
    /\ Returned
    /\ \E j \in Indices : j < BlockStart(result.end) /\ IsMarker(j)
    /\ \E j \in Indices :
          j >= BlockStart(result.end) /\ j < result.start /\ IsMarker(j)
    /\ result.start = LastMarker(0, result.end)

\* C23: the returned list is the slice lines[start:end] of the input, lines
\* unchanged; its first line begins, once stripped, with the start marker, none
\* of its lines is blank, and the line just after it is blank or the end of
\* the file.
C23_ReturnedSliceIsABlock ==
    Returned =>
        LET sl == result.session_lines
        IN  /\ 0 <= result.start
            /\ result.start < result.end
            /\ result.end <= Len(lines)
            /\ sl = SubSeq(lines, result.start + 1, result.end)
            /\ Len(sl) = result.end - result.start
            /\ StartsWith(Strip(sl[1]), NameColon(start_variable))
            /\ \A k \in 1..Len(sl) : Strip(sl[k]) # <<>>
            /\ result.end = Len(lines) \/ IsBlank(result.end)

C23_Witness ==
    /\ Returned
    /\ result.start > 0
    /\ result.end < Len(lines)
    /\ Len(result.session_lines) >= 2
    /\ IsBlank(result.end)
    /\ result.session_lines[1] # Strip(result.session_lines[1])

\* the line that terminates the scan: the first blank line that closes a block
\* matching every condition, else the end of the file
Terminator == IF SatisfyingBlanks # {} THEN Min(SatisfyingBlanks) ELSE Len(lines)

\* the points that close a block: the blank lines and the end of the file
BlockEnds == {b \in Indices : IsBlank(b)} \cup {Len(lines)}

\* C24: when every condition is matched in the block the terminating line
\* closes and that block has no start marker, the call raises the
\* start-variable error, which carries the conditions, and returns no lines,
\* whatever the later blocks of the file hold.
C24_NoMarkerInSatisfyingBlockFails ==
    (pc = "done" /\ SatisfiedAt(Terminator)
        /\ LastMarker(BlockStart(Terminator), Terminator) = NoLine) =>
        /\ RaisedWith(MsgNoStart)
        /\ result.conditions = session_conditions
        /\ result.session_lines = <<>>

C24_Witness ==
    /\ RaisedWith(MsgNoStart)
    /\ Len(session_conditions) >= 1
    /\ SatisfiedAt(Terminator)
    /\ LastMarker(BlockStart(Terminator), Terminator) = NoLine
    /\ \E e \in BlockEnds :
          /\ e > Terminator
          /\ SatisfiedAt(e)
          /\ LastMarker(BlockStart(e), e) # NoLine

\* the index-0 line that governs line j: the most recent one at or before j
GoverningStart(j) == Max(StartsUpTo(j))

\* output name is stored by a single line between line z and line n
ScalarWritesBetween(name, z, n) ==
    \E k \in BlockIndices :
        /\ k > z
        /\ k < n
        /\ IsSingleLine(k)
        /\ HasKey(medpc_name_to_dict_name, LabelOf(k))
        /\ Lookup(medpc_name_to_dict_name, LabelOf(k)) = name

\* the parsing loop stopped with an error on line i - 1
ParseFailed ==
    /\ pc = "done"
    /\ result.kind = "returned"
    /\ read_result.kind \in {"AssertionError", "UnboundLocalError", "AttributeError"}

\* C25: the lines of a multiline variable go to the array whose header is the
\* line just before the most recent index-0 line.  After the loop has passed
\* such a line the current variable is that header; the list of every label
\* of the field map holds the tokens of the lines from its last index-0 line
\* up to the next index-0 line and nothing else (the list starts empty at the
\* index-0 line, and lines governed by another header add nothing to it); a
\* line whose header is not in the field map raises no error.
C25_ContinuationGoesToLatestHeader ==
    /\ (pc = "parse" /\ i > 0 /\ IsContinuation(i - 1)) =>
          /\ StartsUpTo(i - 1) # {}
          /\ multiline_variable_name =
                [bound |-> TRUE, name |-> HeaderBefore(GoverningStart(i - 1))]
    /\ pc \in {"parse", "convert"} =>
          \A f \in 1..Len(medpc_name_to_dict_name) :
              LET name == medpc_name_to_dict_name[f][2]
                  starts == {z \in StartsOf(medpc_name_to_dict_name[f][1]) : z < i}
              IN  (starts # {} /\ ~ScalarWritesBetween(name, Max(starts), i)) =>
                     /\ name \in DOMAIN session_dict
                     /\ session_dict[name] =
                           ListValue(TokensFrom(SpaceTokens,
                               {j \in ArrayLines(Max(starts)) : j < i}, Max(starts)))
    /\ (ParseFailed /\ IsContinuation(i - 1) /\ StartsUpTo(i - 1) # {}) =>
          HasKey(medpc_name_to_dict_name, HeaderBefore(GoverningStart(i - 1)))

C25_Witness ==
    /\ pc = "convert"
    /\ multiline_variable_name = [bound |-> TRUE, name |-> NameB]
    /\ \E j \in BlockIndices :
          /\ IsContinuation(j)
          /\ StartsUpTo(j) # {}
          /\ HeaderBefore(GoverningStart(j)) = NameB
          /\ SpaceTokens(ValueOf(j)) # <<>>
          /\ \E name \in DOMAIN session_dict :
                /\ session_dict[name].tag = "list"
                /\ Len(session_dict[name].items) = 3

\* C26: the trimmed array is no longer than the parsed one and holds, at
\* every index it has, the element the parsed array holds at that index;
\* trimming the trimmed array again gives the same array.
ElementsKept(parsed, trimmed) ==
    /\ Len(trimmed) <= Len(parsed)
    /\ \A k \in 1..Len(trimmed) : trimmed[k] = parsed[k]

C26_TrimIsPrefixAndIdempotent ==
    (pc = "done" /\ session_dict["a"].tag = "list") =>
        /\ read_result.kind = "returned"
        /\ read_result.record["a"].tag = "ndarray"
        /\ ElementsKept(ParsedArray, TrimmedArray)
        /\ TrimZeros(TrimmedArray) = TrimmedArray

C26_Witness ==
    /\ pc = "done"
    /\ read_result.kind = "returned"
    /\ Len(TrimmedArray) = 3
    /\ Len(ParsedArray) = 4
    /\ ~IsZero(TrimmedArray[1])
    /\ IsZero(TrimmedArray[2])
    /\ TrimZeros(TrimmedArray) = TrimmedArray

(***************************************************************************)
(* Properties of get_medpc_variables on the session blocks of the file     *)
(* (1-based line numbers): a block is a maximal run of lines that are not  *)
(* blank.                                                                  *)
(***************************************************************************)
FileLineIsBlank(j) == Strip(lines[j]) = <<>>

\* the number of the session block that line j stands in, counted from 1
SessionNumber(j) ==
    Cardinality({b \in 1..j :
        ~FileLineIsBlank(b) /\ (b = 1 \/ FileLineIsBlank(b - 1))})

\* C28: in the returned lists the n-th value of every requested name is the
\* trimmed value of a line of the n-th session block of the file that begins
\* with the name and a colon, so equal positions of two lists are values of
\* the same session.
C28_ListsAlignedBySession ==
    (pc = "done" /\ variables_result.kind = "returned") =>
        \A k \in 1..Len(variable_names) :
            LET name == variable_names[k]
                values == variables_result.values[name]
            IN  \A n \in 1..Len(values) :
                    \E j \in 1..Len(lines) :
                        /\ ~FileLineIsBlank(j)
                        /\ SessionNumber(j) = n
                        /\ StartsWith(lines[j], NameColon(name))
                        /\ values[n] =
                              Strip(SubSeq(lines[j], Len(name) + 2, Len(lines[j])))

(***************************************************************************)
(* The dataset conversion (seiler_2024_convert_dataset.py): fp_to_nwb and  *)
(* opto_to_nwb collect the sessions, dataset_to_nwb marks the sessions     *)
(* without port entry durations, drops the skipped subjects and submits    *)
(* each session to a process pool whose workers run safe_session_to_nwb.   *)
(* A path is the chain of characters of its name.  Of the arguments of     *)
(* session_to_nwb the model keeps those that differ between sessions.      *)
(***************************************************************************)
\* most folders and files the directory walks of fp_to_nwb and opto_to_nwb
\* yield
MaxFound == 2

\* max_workers: the number of worker processes of the pool
max_workers == 2

\* most characters of the text a handler writes to its error file (texts of
\* one and of two characters give every order of two lengths)
MaxText == 2

\* a value that is None
None == <<"None">>

\* the header values of one session of a behavior file, as
\* get_fp_header_variables, get_opto_header_variables and get_medpc_variables
\* return them
HeaderVariables(start_date, start_time, msn, file, subject, box_number) ==
    [start_date |-> start_date, start_time |-> start_time, msn |-> msn,
     file |-> file, subject |-> subject, box_number |-> box_number]

\* what one iteration of a loop of the walks is given: a photometry folder
\* (its name starts with "Photo"), a subject directory of the FP behavior
\* data, a subject path of the Opto data or a raw Opto file by date, with
\* the sessions found for it
FoundSession(loop, experimental_group, experimental_subgroup, optogenetic_treatment, name, is_dir, header_variables) ==
    [loop |-> loop, experimental_group |-> experimental_group,
     experimental_subgroup |-> experimental_subgroup,
     optogenetic_treatment |-> optogenetic_treatment, name |-> name,
     is_dir |-> is_dir, header_variables |-> header_variables]

FoundSessions ==
    { \* a photometry folder with one session of its date, in a raw file by date
      FoundSession("photometry", <<"P", "S">>, <<"E", "a", "r", "l", "y">>, None, <<"P", "h", "o", "t", "o", "_", "7", "5", "_", "2", "1", "4", "-", "1", "8", "1", "0", "2", "9", "-", "1", "2", "4", "8", "1", "5">>, TRUE,
          << HeaderVariables(<<"1", "0", "/", "2", "9", "/", "1", "8">>, <<"0", "9", ":", "4", "2", ":", "5", "4">>, <<"m">>, <<"p">>, <<"7", "5", ".", "2", "1", "4">>, None),
             HeaderVariables(<<"1", "0", "/", "3", "0", "/", "1", "8">>, <<"0", "9", ":", "4", "2", ":", "5", "4">>, <<"m">>, <<"p">>, <<"7", "5", ".", "2", "1", "4">>, None) >>),
      \* the folder with two sessions of its date
      FoundSession("photometry", <<"P", "S">>, <<"E", "a", "r", "l", "y">>, None, <<"P", "h", "o", "t", "o", "_", "7", "5", "_", "2", "1", "4", "-", "1", "8", "1", "0", "2", "9", "-", "1", "2", "4", "8", "1", "5">>, TRUE,
          << HeaderVariables(<<"1", "0", "/", "2", "9", "/", "1", "8">>, <<"0", "9", ":", "4", "2", ":", "5", "4">>, <<"m">>, <<"p">>, <<"7", "5", ".", "2", "1", "4">>, None),
             HeaderVariables(<<"1", "0", "/", "2", "9", "/", "1", "8">>, <<"0", "9", ":", "4", "2", ":", "5", "4">>, <<"m">>, <<"q">>, <<"7", "5", ".", "2", "1", "4">>, None) >>),
      \* the folder in a subgroup whose session of that date is left out
      FoundSession("photometry", <<"P", "S">>, <<"L", "a", "t", "e", " ", "R", "I", "6", "0">>, None, <<"P", "h", "o", "t", "o", "_", "7", "5", "_", "2", "1", "4", "-", "1", "8", "1", "0", "2", "9", "-", "1", "2", "4", "8", "1", "5">>, TRUE,
          <<>>),
      \* a subject whose session is in two raw files by date
      FoundSession("fp_behavior", <<"P", "S">>, <<>>, None, <<"7", "5", ".", "2", "1", "4">>, TRUE,
          << HeaderVariables(<<"1", "0", "/", "2", "9", "/", "1", "8">>, <<"0", "9", ":", "4", "2", ":", "5", "4">>, <<"m">>, <<"p">>, <<"7", "5", ".", "2", "1", "4">>, None),
             HeaderVariables(<<"1", "0", "/", "2", "9", "/", "1", "8">>, <<"0", "9", ":", "4", "2", ":", "5", "4">>, <<"m">>, <<"q">>, <<"7", "5", ".", "2", "1", "4">>, None) >>),
      \* a subject with a session in a csv file only
      FoundSession("fp_behavior", <<"P", "S">>, <<>>, None, <<"7", "5", ".", "2", "1", "4">>, TRUE,
          << HeaderVariables(<<"1", "0", "/", "2", "9", "/", "1", "8">>, <<"0", "0", ":", "0", "0", ":", "0", "0">>, <<"U", "n", "k", "n", "o", "w", "n">>, <<"7", "5", ".", "2", "1", "4", "_", "1", "0", "-", "2", "9", "-", "1", "8", ".", "c", "s", "v">>, <<"7", "5", ".", "2", "1", "4">>, None) >>),
      \* a subject of subjects_to_skip
      FoundSession("fp_behavior", <<"P", "S">>, <<>>, None, <<"3", "6", "4", ".", "4", "2", "6">>, TRUE,
          << HeaderVariables(<<"1", "0", "/", "2", "9", "/", "1", "8">>, <<"0", "0", ":", "0", "0", ":", "0", "0">>, <<"U", "n", "k", "n", "o", "w", "n">>, <<"3", "6", "4", ".", "4", "2", "6", "_", "1", "0", "-", "2", "9", "-", "1", "8", ".", "c", "s", "v">>, <<"3", "6", "4", ".", "4", "2", "6">>, None) >>),
      \* the MedPC file of a subject with a session of a program that is left
      \* out, then one with a month 13
      FoundSession("fp_behavior", <<"P", "S">>, <<>>, None, <<"7", "5", ".", "2", "1", "4">>, TRUE,
          << HeaderVariables(<<"1", "0", "/", "2", "9", "/", "1", "8">>, <<"0", "9", ":", "4", "2", ":", "5", "4">>, <<"E", "x", "t", "i", "n", "c", "t", "i", "o", "n", " ", "-", " ", "1", " ", "H", "R">>, <<"7", "5", ".", "2", "1", "4">>, None, None),
             HeaderVariables(<<"1", "3", "/", "0", "1", "/", "1", "9">>, <<"0", "9", ":", "4", "2", ":", "5", "4">>, <<"m">>, <<"7", "5", ".", "2", "1", "4">>, None, None) >>),
      \* the MedPC file of an Opto subject known by the first part of its id
      FoundSession("opto_subject", <<"D", "L", "S", "-", "E", "x", "c", "i", "t", "a", "t", "o", "r", "y">>, <<>>, <<"C", "h", "R", "2">>, <<"2", "0", "2", "1", "-", "1", "1", "-", "0", "1", "_", "2", "0", "2">>, FALSE,
          << HeaderVariables(<<"0", "9", "/", "2", "0", "/", "1", "9">>, <<"0", "9", ":", "4", "2", ":", "5", "4">>, <<"m">>, <<"2", "0", "2", "1", "-", "1", "1", "-", "0", "1", "_", "2", "0", "2">>, None, None) >>),
      \* a file and a directory whose names hold no subject id
      FoundSession("opto_subject", <<"D", "L", "S", "-", "E", "x", "c", "i", "t", "a", "t", "o", "r", "y">>, <<>>, <<"C", "h", "R", "2">>, <<"x">>, FALSE, <<>>),
      FoundSession("opto_subject", <<"D", "L", "S", "-", "E", "x", "c", "i", "t", "a", "t", "o", "r", "y">>, <<>>, <<"C", "h", "R", "2">>, <<"x">>, TRUE, <<>>),
      \* a raw Opto file by date with a session of one subject in two boxes
      FoundSession("opto_by_date", <<"D", "L", "S", "-", "E", "x", "c", "i", "t", "a", "t", "o", "r", "y">>, <<>>, <<"U", "n", "k", "n", "o", "w", "n">>, <<"r">>, FALSE,
          << HeaderVariables(<<"0", "9", "/", "2", "0", "/", "1", "9">>, <<"0", "9", ":", "4", "2", ":", "5", "4">>, <<"m">>, <<"r">>, <<"2", "0", "2">>, <<"1">>),
             HeaderVariables(<<"0", "9", "/", "2", "0", "/", "1", "9">>, <<"0", "9", ":", "4", "2", ":", "5", "4">>, <<"m">>, <<"r">>, <<"2", "0", "2">>, <<"2">>) >>) }

\* the order of the four loops: fp_to_nwb walks the photometry folders, then
\* the behavior directories; opto_to_nwb the subject paths, then the raw
\* files by date
LoopRank(loop) ==
    CASE loop = "photometry" -> 1
      [] loop = "fp_behavior" -> 2
      [] loop = "opto_subject" -> 3
      [] loop = "opto_by_date" -> 4

FoundWalks ==
    { w \in UNION {[1..n -> FoundSessions] : n \in 0..MaxFound} :
        \A a \in 1..Len(w), b \in 1..Len(w) :
            a < b => LoopRank(w[a].loop) <= LoopRank(w[b].loop) }

\* len of the array np.trim_zeros leaves of the DurationOfPE column of a csv
\* file
DurationOfPE(behavior_file_path) ==
    IF behavior_file_path = <<"7", "5", ".", "2", "1", "4", "_", "1", "0", "-", "2", "9", "-", "1", "8", ".", "c", "s", "v">> THEN 0 ELSE 2

\* data_dir_path / "sessions_without_port_entry_durations.yaml": no file, a
\* file yaml.safe_load reads as None, or a file that holds a set of keys
PortEntryFile(exists, is_none, sessions) ==
    [exists |-> exists, is_none |-> is_none, sessions |-> sessions]

PortEntryFiles ==
    { PortEntryFile(FALSE, FALSE, {}),
      PortEntryFile(TRUE, TRUE, {}),
      PortEntryFile(TRUE, FALSE,
          {<<"b", "e", "h", "a", "v", "i", "o", "r", "_", "f", "i", "l", "e", "_", "p", "a", "t", "h", "=", "p", "_", "S", "t", "a", "r", "t", " ", "D", "a", "t", "e", "=", "1", "0", "/", "2", "9", "/", "1", "8", "_", "S", "t", "a", "r", "t", " ", "T", "i", "m", "e", "=", "0", "9", ":", "4", "2", ":", "5", "4", "_", "S", "u", "b", "j", "e", "c", "t", "=", "7", "5", ".", "2", "1", "4">>}) }

\* lines 78-94: subjects_to_skip
subjects_to_skip ==
    {
      <<"1", "0", "2", ".", "2", "6", "0">>, <<"1", "2", "9", ".", "4", "2", "5">>,
      <<"2", "4", "4", ".", "4", "6", "4">>, <<"2", "5", "0", ".", "4", "2", "7">>,
      <<"2", "6", "2", ".", "4", "7", "8">>, <<"2", "6", "4", ".", "4", "7", "5">>,
      <<"2", "6", "4", ".", "4", "7", "7">>, <<"2", "6", "4", ".", "4", "7", "8">>,
      <<"2", "8", "9", ".", "4", "0", "7">>, <<"2", "8", "9", ".", "4", "0", "8">>,
      <<"3", "0", "9", ".", "3", "9", "9">>, <<"3", "6", "4", ".", "4", "2", "6">>,
      <<"4", "1", "6", ".", "4", "0", "5">>, <<"4", "3", "3", ".", "4", "2", "1">>,
      <<"9", "5", ".", "2", "5", "9">> }

\* lines 312-368: fi1r_only_sessions
fi1r_only_sessions ==
    {
      <<"P", "h", "o", "t", "o", "_", "0", "2", "8", "_", "3", "9", "2", "-", "2", "0", "0", "7", "2", "4", "-", "1", "3", "0", "3", "2", "3">>, <<"P", "h", "o", "t", "o", "_", "0", "4", "8", "_", "3", "9", "2", "-", "2", "0", "0", "7", "2", "8", "-", "1", "2", "1", "2", "2", "2">>,
      <<"P", "h", "o", "t", "o", "_", "1", "0", "0", "_", "2", "5", "8", "-", "1", "9", "0", "4", "2", "3", "-", "1", "2", "2", "6", "3", "2">>, <<"P", "h", "o", "t", "o", "_", "1", "0", "0", "_", "2", "5", "8", "-", "1", "9", "0", "5", "0", "9", "-", "1", "3", "3", "2", "1", "2">>,
      <<"P", "h", "o", "t", "o", "_", "1", "0", "1", "_", "2", "6", "0", "-", "1", "9", "0", "4", "2", "5", "-", "1", "2", "0", "0", "2", "9">>, <<"P", "h", "o", "t", "o", "_", "1", "1", "1", "_", "2", "8", "5", "-", "1", "9", "0", "6", "0", "5", "-", "1", "4", "2", "7", "5", "9">>,
      <<"P", "h", "o", "t", "o", "_", "1", "1", "2", "_", "2", "8", "3", "-", "1", "9", "0", "6", "2", "0", "-", "0", "9", "3", "5", "4", "2">>, <<"P", "h", "o", "t", "o", "_", "1", "1", "3", "_", "2", "8", "3", "-", "1", "9", "0", "6", "0", "5", "-", "1", "1", "5", "4", "3", "8">>,
      <<"P", "h", "o", "t", "o", "_", "1", "1", "4", "_", "2", "7", "3", "-", "1", "9", "0", "6", "0", "7", "-", "1", "4", "0", "8", "2", "2">>, <<"P", "h", "o", "t", "o", "_", "1", "1", "5", "_", "2", "7", "3", "-", "1", "9", "0", "6", "1", "1", "-", "1", "1", "5", "6", "5", "4">>,
      <<"P", "h", "o", "t", "o", "_", "1", "3", "9", "_", "2", "9", "8", "-", "1", "9", "0", "8", "0", "9", "-", "1", "3", "2", "4", "2", "7">>, <<"P", "h", "o", "t", "o", "_", "1", "3", "9", "_", "2", "9", "8", "-", "1", "9", "0", "9", "1", "2", "-", "0", "9", "5", "0", "3", "4">>,
      <<"P", "h", "o", "t", "o", "_", "1", "4", "0", "_", "3", "0", "6", "-", "1", "9", "0", "8", "0", "9", "-", "1", "2", "1", "1", "0", "7">>, <<"P", "h", "o", "t", "o", "_", "1", "4", "0", "_", "3", "0", "6", "-", "1", "9", "0", "9", "0", "3", "-", "1", "0", "2", "5", "5", "1">>,
      <<"P", "h", "o", "t", "o", "_", "1", "4", "1", "_", "3", "0", "8", "-", "1", "9", "0", "8", "0", "9", "-", "1", "4", "3", "4", "1", "0">>, <<"P", "h", "o", "t", "o", "_", "2", "7", "1", "_", "3", "9", "6", "-", "2", "0", "0", "7", "0", "7", "-", "1", "2", "5", "1", "1", "7">>,
      <<"P", "h", "o", "t", "o", "_", "2", "7", "1", "_", "3", "9", "6", "-", "2", "0", "0", "7", "2", "2", "-", "1", "2", "1", "6", "3", "8">>, <<"P", "h", "o", "t", "o", "_", "3", "3", "3", "_", "3", "9", "3", "-", "2", "0", "0", "7", "1", "3", "-", "1", "2", "1", "0", "2", "7">>,
      <<"P", "h", "o", "t", "o", "_", "3", "3", "3", "_", "3", "9", "3", "-", "2", "0", "0", "7", "2", "9", "-", "1", "1", "5", "5", "0", "6">>, <<"P", "h", "o", "t", "o", "_", "3", "4", "6", "_", "3", "9", "4", "-", "2", "0", "0", "7", "0", "7", "-", "1", "4", "1", "5", "1", "3">>,
      <<"P", "h", "o", "t", "o", "_", "3", "4", "6", "_", "3", "9", "4", "-", "2", "0", "0", "7", "2", "2", "-", "1", "3", "2", "3", "4", "5">>, <<"P", "h", "o", "t", "o", "_", "3", "4", "7", "_", "3", "9", "3", "-", "2", "0", "0", "7", "2", "3", "-", "1", "1", "3", "5", "3", "0">>,
      <<"P", "h", "o", "t", "o", "_", "3", "4", "8", "_", "3", "9", "3", "-", "2", "0", "0", "7", "3", "0", "-", "1", "1", "3", "1", "2", "5">>, <<"P", "h", "o", "t", "o", "_", "3", "4", "9", "_", "3", "9", "3", "-", "2", "0", "0", "7", "1", "7", "-", "1", "2", "3", "3", "1", "9">>,
      <<"P", "h", "o", "t", "o", "_", "6", "1", "_", "2", "0", "7", "-", "1", "8", "1", "0", "1", "7", "-", "1", "0", "5", "6", "3", "9">>, <<"P", "h", "o", "t", "o", "_", "6", "3", "_", "2", "0", "7", "-", "1", "8", "1", "0", "1", "5", "-", "0", "9", "3", "9", "1", "0">>,
      <<"P", "h", "o", "t", "o", "_", "6", "3", "_", "2", "0", "7", "-", "1", "8", "1", "0", "3", "0", "-", "1", "0", "3", "3", "3", "2">>, <<"P", "h", "o", "t", "o", "_", "6", "4", "_", "2", "0", "5", "-", "1", "8", "1", "0", "1", "7", "-", "0", "9", "4", "9", "1", "3">>,
      <<"P", "h", "o", "t", "o", "_", "7", "5", "_", "2", "1", "4", "-", "1", "8", "1", "0", "2", "9", "-", "1", "2", "4", "8", "1", "5">>, <<"P", "h", "o", "t", "o", "_", "7", "8", "_", "2", "1", "4", "-", "1", "8", "1", "0", "3", "1", "-", "1", "3", "1", "8", "2", "0">>,
      <<"P", "h", "o", "t", "o", "_", "8", "0", "_", "2", "3", "6", "-", "1", "9", "0", "1", "2", "1", "-", "0", "9", "3", "4", "2", "5">>, <<"P", "h", "o", "t", "o", "_", "8", "1", "_", "2", "3", "6", "-", "1", "9", "0", "1", "1", "7", "-", "1", "0", "2", "1", "2", "8">>,
      <<"P", "h", "o", "t", "o", "_", "8", "1", "_", "2", "3", "6", "-", "1", "9", "0", "2", "0", "7", "-", "1", "0", "1", "4", "5", "1">>, <<"P", "h", "o", "t", "o", "_", "8", "7", "_", "2", "3", "9", "-", "1", "9", "0", "2", "2", "8", "-", "1", "1", "1", "3", "1", "7">>,
      <<"P", "h", "o", "t", "o", "_", "8", "7", "_", "2", "3", "9", "-", "1", "9", "0", "3", "2", "1", "-", "1", "1", "0", "1", "2", "0">>, <<"P", "h", "o", "t", "o", "_", "8", "8", "_", "2", "3", "9", "-", "1", "9", "0", "2", "1", "9", "-", "1", "4", "0", "0", "2", "7">>,
      <<"P", "h", "o", "t", "o", "_", "8", "8", "_", "2", "3", "9", "-", "1", "9", "0", "3", "1", "1", "-", "1", "1", "2", "0", "3", "4">>, <<"P", "h", "o", "t", "o", "_", "8", "9", "_", "2", "4", "7", "-", "1", "9", "0", "3", "0", "8", "-", "0", "9", "5", "2", "5", "8">>,
      <<"P", "h", "o", "t", "o", "_", "8", "9", "_", "2", "4", "7", "-", "1", "9", "0", "3", "2", "8", "-", "1", "2", "5", "5", "1", "5">>, <<"P", "h", "o", "t", "o", "_", "9", "0", "_", "2", "4", "7", "-", "1", "9", "0", "3", "2", "8", "-", "1", "0", "3", "2", "4", "9">>,
      <<"P", "h", "o", "t", "o", "_", "9", "2", "_", "2", "4", "6", "-", "1", "9", "0", "2", "2", "7", "-", "1", "4", "3", "2", "1", "0">>, <<"P", "h", "o", "t", "o", "_", "9", "2", "_", "2", "4", "6", "-", "1", "9", "0", "2", "2", "7", "-", "1", "5", "0", "3", "0", "7">>,
      <<"P", "h", "o", "t", "o", "_", "9", "2", "_", "2", "4", "6", "-", "1", "9", "0", "2", "2", "8", "-", "1", "3", "2", "7", "3", "7">>, <<"P", "h", "o", "t", "o", "_", "9", "2", "_", "2", "4", "6", "-", "1", "9", "0", "3", "1", "9", "-", "1", "1", "4", "3", "5", "7">>,
      <<"P", "h", "o", "t", "o", "_", "9", "3", "_", "2", "4", "6", "-", "1", "9", "0", "2", "2", "2", "-", "1", "3", "0", "1", "2", "8">>, <<"P", "h", "o", "t", "o", "_", "9", "4", "_", "2", "4", "6", "-", "1", "9", "0", "3", "2", "8", "-", "1", "1", "3", "6", "4", "1">>,
      <<"P", "h", "o", "t", "o", "_", "9", "6", "_", "2", "5", "9", "-", "1", "9", "0", "4", "1", "7", "-", "1", "6", "0", "3", "3", "3">>, <<"P", "h", "o", "t", "o", "_", "9", "7", "_", "2", "5", "7", "-", "1", "9", "0", "4", "1", "7", "-", "1", "3", "4", "6", "4", "3">>,
      <<"P", "h", "o", "t", "o", "_", "9", "7", "_", "2", "5", "7", "-", "1", "9", "0", "5", "0", "6", "-", "1", "2", "0", "1", "3", "3">>, <<"P", "h", "o", "t", "o", "_", "9", "8", "_", "2", "5", "7", "-", "1", "9", "0", "4", "2", "4", "-", "1", "1", "4", "0", "2", "4">>,
      <<"P", "h", "o", "t", "o", "_", "9", "8", "_", "2", "5", "7", "-", "1", "9", "0", "5", "1", "0", "-", "0", "9", "5", "0", "5", "6">>, <<"P", "h", "o", "t", "o", "_", "9", "9", "_", "2", "5", "7", "-", "1", "9", "0", "5", "0", "6", "-", "1", "3", "0", "9", "5", "1">> }

\* partial_subject_ids_to_subject_id of fp_to_nwb (lines 369-375), and of
\* opto_to_nwb (lines 627-656) and get_opto_subject_id (lines 812-841), which
\* hold the same items
partial_subject_ids_to_subject_id(function) ==
    IF function = "fp_to_nwb"
    THEN <<
      <<<<"3", "0", "0">>, <<"3", "0", "0", ".", "4", "0", "5">>>>,
      <<<<"4", "1", "8">>, <<"4", "1", "8", ".", "4", "0", "4">>>>,
      <<<<"2", "9", "9">>, <<"2", "9", "9", ".", "4", "0", "5">>>>,
      <<<<"2", "7", "6">>, <<"2", "7", "6", ".", "4", "0", "5">>>>,
      <<<<"2", "6", "2", ".", "2", "5", "9", ".", "4", "7", "8">>, <<"2", "6", "2", ".", "4", "7", "8">>>> >>
    ELSE <<
      <<<<"2", "6", "8">>, <<"2", "6", "8", ".", "4", "7", "6">>>>,
      <<<<"2", "6", "6">>, <<"2", "6", "6", ".", "4", "7", "7">>>>,
      <<<<"2", "4", "4">>, <<"2", "4", "4", ".", "4", "6", "5">>>>,
      <<<<"3", "4", "3">>, <<"3", "4", "3", ".", "4", "8", "3">>>>,
      <<<<"4", "1", "9">>, <<"4", "1", "9", ".", "4", "0", "4">>>>,
      <<<<"2", "4", "5">>, <<"2", "4", "5", ".", "4", "6", "4">>>>,
      <<<<"3", "4", "2">>, <<"3", "4", "2", ".", "4", "8", "3">>>>,
      <<<<"2", "0", "2">>, <<"2", "0", "2", ".", "4", "6", "5">>>>,
      <<<<"3", "1", "3">>, <<"3", "1", "3", ".", "4", "0", "3">>>>,
      <<<<"4", "1", "8">>, <<"4", "1", "8", ".", "4", "0", "4">>>>,
      <<<<"3", "4", "0">>, <<"3", "4", "0", ".", "4", "8", "3">>>>,
      <<<<"2", "5", "9">>, <<"2", "5", "9", ".", "4", "7", "8">>>>,
      <<<<"2", "6", "4">>, <<"2", "6", "4", ".", "4", "7", "8">>>>,
      <<<<"4", "2", "1">>, <<"4", "2", "1", ".", "4", "0", "4">>>>,
      <<<<"4", "1", "7">>, <<"4", "1", "7", ".", "4", "0", "4">>>>,
      <<<<"2", "3", "3">>, <<"2", "3", "3", ".", "4", "6", "9">>>>,
      <<<<"2", "6", "1">>, <<"2", "6", "1", ".", "4", "7", "8">>>>,
      <<<<"2", "6", "5">>, <<"2", "6", "5", ".", "4", "7", "6">>>>,
      <<<<"3", "1", "1">>, <<"3", "1", "1", ".", "4", "0", "3">>>>,
      <<<<"2", "0", "6">>, <<"2", "0", "6", ".", "4", "6", "8">>>>,
      <<<<"2", "4", "3">>, <<"2", "4", "3", ".", "4", "6", "8">>>>,
      <<<<"2", "6", "3">>, <<"2", "6", "3", ".", "4", "7", "7">>>>,
      <<<<"3", "3", "8">>, <<"3", "3", "8", ".", "3", "9", "8">>>>,
      <<<<"4", "1", "4">>, <<"4", "1", "4", ".", "4", "0", "5">>>>,
      <<<<"3", "0", "0">>, <<"3", "0", "0", ".", "4", "0", "5">>>>,
      <<<<"2", "9", "9">>, <<"2", "9", "9", ".", "4", "0", "5">>>>,
      <<<<"2", "7", "6">>, <<"2", "7", "6", ".", "4", "0", "5">>>>,
      <<<<"2", "6", "2", ".", "2", "5", "9", ".", "4", "7", "8">>, <<"2", "6", "2", ".", "4", "7", "8">>>> >>

\* s.split(sep) for a separator of one or more characters
RECURSIVE SplitStr(_, _)
SplitStr(s, sep) ==
    LET at(k) == k + Len(sep) - 1 <= Len(s) /\ SubSeq(s, k, k + Len(sep) - 1) = sep
    IN  IF \A k \in 1..Len(s) : ~at(k) THEN <<s>>
        ELSE LET k == CHOOSE j \in 1..Len(s) : at(j) /\ \A m \in 1..(j - 1) : ~at(m)
             IN  <<SubSeq(s, 1, k - 1)>>
                 \o SplitStr(SubSeq(s, k + Len(sep), Len(s)), sep)

\* s.replace(a, b) for single characters a and b
Replace(s, a, b) == [k \in 1..Len(s) |-> IF s[k] = a THEN b ELSE s[k]]

\* re.match of a pattern of character classes, each taken between its least
\* and its greatest number of times: whether the elements from the k-th on
\* match s from pos on
RECURSIVE ReMatch(_, _, _, _)
ReMatch(pattern, k, s, pos) ==
    IF k > Len(pattern) THEN TRUE
    ELSE \E n \in pattern[k][2]..pattern[k][3] :
            /\ pos + n - 1 <= Len(s)
            /\ \A j \in pos..(pos + n - 1) : s[j] \in pattern[k][1]
            /\ ReMatch(pattern, k + 1, s, pos + n)

\* lines 799-890: get_opto_subject_id(subject_path), from the name of the
\* path and whether it is a directory
get_opto_subject_id(name, is_dir) ==
    LET D == {Digits[d] : d \in 1..Len(Digits)}
        one(chars) == << <<chars, 1, 1>> >>
        digits(n, m) == << <<D, n, m>> >>
        id == digits(2, 3) \o one({"."}) \o digits(3, 3)
        date == one({"1", "2"}) \o digits(3, 3) \o one({"-"}) \o one({"0", "1"})
                \o digits(1, 1) \o one({"-"}) \o one({"0", "1", "2", "3"})
                \o digits(1, 1)
        date8 == one({"1", "2"}) \o digits(3, 3) \o one({"0", "1"})
                 \o digits(1, 1) \o one({"0", "1", "2", "3"}) \o digits(1, 1)
        match(pattern) == ReMatch(pattern, 1, name, 1)
        in(sub) == \E k \in 1..Len(name) :
                      k + Len(sub) - 1 <= Len(name)
                      /\ SubSeq(name, k, k + Len(sub) - 1) = sub
        Raises(kind) == [raised |-> kind, subject_id |-> <<>>]
        Returns(subject_id) ==
            LET txt == <<".", "t", "x", "t">>
                cut == IF Len(subject_id) >= 4
                          /\ SubSeq(subject_id, Len(subject_id) - 3, Len(subject_id)) = txt
                       THEN SubSeq(subject_id, 1, Len(subject_id) - 4)
                       ELSE subject_id
                table == partial_subject_ids_to_subject_id("get_opto_subject_id")
                full == IF HasKey(table, cut) THEN Lookup(table, cut) ELSE cut
            IN  IF ReMatch(id, 1, full, 1)
                THEN [raised |-> "", subject_id |-> full]
                ELSE Raises("AssertionError")
    IN  IF match(id) THEN Returns(name)
        ELSE IF in(<<"S", "u", "b", "j", "e", "c", "t">>)
        THEN IF Len(Split(name, " ")) < 2 THEN Raises("IndexError")
             ELSE Returns(Split(name, " ")[2])
        ELSE IF match(date \o one({"_"}) \o digits(2, 3) \o one({"_"}) \o digits(3, 3))
        THEN Returns(Split(name, "_")[2] \o <<".">>
                     \o Split(Split(name, "_")[3], " ")[1])
        ELSE IF \/ match(date \o one({"_"}) \o id)
                \/ match(date8 \o one({"_"}) \o id)
                \/ match(date \o one({"_"}) \o digits(2, 3))
        THEN Returns(Split(name, "_")[2])
        ELSE IF match(date \o one({"_"}) \o one({"_"}))
        THEN Returns(SplitStr(name, <<"_", "_">>)[2])
        ELSE IF match(date \o one({"-"}))
        THEN Returns(Split(name, "-")[Len(Split(name, "-"))])
        ELSE IF \/ match(digits(3, 3) \o one({"_"}) \o digits(4, 4))
                \/ match(digits(3, 3) \o one({"_"}) \o digits(2, 2) \o one({"_"})
                         \o digits(2, 2))
        THEN Returns(Split(name, "_")[1])
        ELSE IF is_dir THEN Returns(Replace(name, "_", "."))
        ELSE IF name = <<"2", "0", "2", "1", "-", "1", "0", "-", "2", "9", "_", "2", "6", "2", "_", "2", "5", "9", ".", "4", "7", "8">> THEN Returns(<<"2", "6", "2", ".", "4", "7", "8">>)
        ELSE Raises("ValueError")

\* lines 950-1009: session_should_be_skipped
session_should_be_skipped(start_date, start_time, subject_id, msn) ==
    LET msns_to_skip == {
      <<"E", "x", "t", "i", "n", "c", "t", "i", "o", "n", " ", "-", " ", "1", " ", "H", "R">>, <<"F", "O", "O", "D", "_", "F", "R", "1", " ", "H", "a", "p", "i", "t", " ", "T", "r", "a", "i", "n", "i", "n", "g", " ", "T", "T", "L">>,
      <<"F", "O", "O", "D", "_", "M", "a", "g", "a", "z", "i", "n", "e", " ", "T", "r", "a", "i", "n", "i", "n", "g", " ", "1", " ", "h", "r">>, <<"M", "a", "g", "a", "z", "i", "n", "e", " ", "T", "r", "a", "i", "n", "i", "n", "g", " ", "1", " ", "h", "r">>,
      <<"P", "r", "o", "b", "e", " ", "T", "e", "s", "t", " ", "H", "a", "b", "i", "t", " ", "T", "r", "a", "i", "n", "i", "n", "g", " ", "C", "C">>, <<"R", "I", "_", "6", "0", "_", "L", "e", "f", "t", "_", "P", "r", "o", "b", "a", "b", "i", "l", "i", "t", "y", "_", "A", "H", "_", "0", "5", "0", "6", "1", "9">>,
      <<"R", "I", "_", "6", "0", "_", "R", "i", "g", "h", "t", "_", "P", "r", "o", "b", "a", "b", "i", "l", "i", "t", "y", "_", "A", "H", "_", "0", "5", "0", "6", "1", "9">>, <<"R", "K", "_", "C", "_", "F", "R", "1", "_", "B", "O", "T", "H", "_", "1", "h", "r">>,
      <<"R", "R", "1", "0", "_", "L", "e", "f", "t", "_", "A", "H", "J", "S">>, <<"R", "R", "1", "0", "_", "R", "i", "g", "h", "t", "_", "A", "H", "J", "S">> }
    IN  \/ subject_id = <<>>
        \/ msn \in msns_to_skip
        \/ <<start_date, start_time, subject_id, msn>> \in
              { <<<<"0", "9", "/", "2", "0", "/", "1", "9">>, <<"0", "9", ":", "4", "2", ":", "5", "4">>, <<"1", "3", "9", ".", "2", "9", "8">>, <<"R", "I", " ", "6", "0", " ", "R", "I", "G", "H", "T", " ", "S", "T", "I", "M">>>>,
                <<<<"0", "7", "/", "2", "8", "/", "2", "0">>, <<"1", "3", ":", "2", "1", ":", "1", "5">>, <<"2", "7", "2", ".", "3", "9", "6">>, <<"P", "r", "o", "b", "e", " ", "T", "e", "s", "t", " ", "H", "a", "b", "i", "t", " ", "T", "r", "a", "i", "n", "i", "n", "g", " ", "T", "T", "L">>>>,
                <<<<"0", "7", "/", "3", "1", "/", "2", "0">>, <<"1", "2", ":", "0", "3", ":", "3", "1">>, <<"3", "4", "6", ".", "3", "9", "4">>, <<"F", "O", "O", "D", "_", "R", "I", " ", "6", "0", " ", "R", "I", "G", "H", "T", " ", "T", "T", "L">>>> }

\* f"{n:02d}"
TwoDigits(n) == <<Digits[((n \div 10) % 10) + 1], Digits[(n % 10) + 1]>>

\* datetime.isoformat()
Isoformat(dt) ==
    TwoDigits(dt.year \div 100) \o TwoDigits(dt.year % 100) \o <<"-">>
    \o TwoDigits(dt.month) \o <<"-">> \o TwoDigits(dt.day) \o <<"T">>
    \o TwoDigits(dt.hour) \o <<":">> \o TwoDigits(dt.minute) \o <<":">>
    \o TwoDigits(dt.second)

\* the session_conditions dict built for a session: Subject and Box are left
\* out when they are None
SessionConditions(h) ==
    << <<<<"S", "t", "a", "r", "t", " ", "D", "a", "t", "e">>, h.start_date>>,
       <<<<"S", "t", "a", "r", "t", " ", "T", "i", "m", "e">>, h.start_time>> >>
    \o (IF h.subject # None THEN << <<<<"S", "u", "b", "j", "e", "c", "t">>, h.subject>> >> ELSE <<>>)
    \o (IF h.box_number # None THEN << <<<<"B", "o", "x">>, h.box_number>> >> ELSE <<>>)

\* session_to_nwb_args = dict(...): the arguments the conversion of a
\* session is called with.  opto_to_nwb adds optogenetic_treatment; for the
\* raw files by date it gives "DLS-Excitatory" and "Unknown" (lines 786-787)
SessionToNwbArgs(c, h, subject_id, start_datetime) ==
    LET by_date == c.loop = "opto_by_date"
        args == [behavior_file_path |-> h.file,
                 subject_id |-> subject_id,
                 session_conditions |-> SessionConditions(h),
                 start_datetime |-> start_datetime,
                 experiment_type |->
                     IF c.loop \in {"photometry", "fp_behavior"} THEN <<"F", "P">> ELSE <<"O", "p", "t", "o">>,
                 experimental_group |->
                     IF by_date THEN <<"D", "L", "S", "-", "E", "x", "c", "i", "t", "a", "t", "o", "r", "y">> ELSE c.experimental_group]
    IN  IF c.loop = "opto_subject"
        THEN Put(args, "optogenetic_treatment", c.optogenetic_treatment)
        ELSE IF by_date
        THEN Put(args, "optogenetic_treatment", <<"U", "n", "k", "n", "o", "w", "n">>)
        ELSE args

\* session_key += f"_{key}={value}" for the items from the k-th on
RECURSIVE AddConditions(_, _, _)
AddConditions(session_key, conds, k) ==
    IF k > Len(conds) THEN session_key
    ELSE AddConditions(session_key \o <<"_">> \o conds[k][1] \o <<"=">> \o conds[k][2],
                       conds, k + 1)

get_session_key_from_kwargs(session_to_nwb_kwargs) ==
    AddConditions(<<"b", "e", "h", "a", "v", "i", "o", "r", "_", "f", "i", "l", "e", "_", "p", "a", "t", "h", "=">> \o session_to_nwb_kwargs.behavior_file_path,
                  session_to_nwb_kwargs.session_conditions, 1)

\* lines 132-146: the name of the error file of a session
ExceptionFilePath(kw) ==
    LET stamp == Replace(Isoformat(kw.start_datetime), ":", "-")
    IN  IF kw.experiment_type = <<"F", "P">>
        THEN <<"E", "R", "R", "O", "R", "_">> \o kw.experiment_type \o <<"_">>
             \o kw.experimental_group \o <<"_">> \o kw.subject_id \o <<"_">>
             \o stamp \o <<".", "t", "x", "t">>
        ELSE <<"E", "R", "R", "O", "R", "_">> \o kw.experiment_type \o <<"_">>
             \o kw.experimental_group \o <<"_">> \o kw.optogenetic_treatment
             \o <<"_">> \o kw.subject_id \o <<"_">> \o stamp \o <<".", "t", "x", "t">>

\* a loop body that appends the session without looking at its key
AppendAlways(args_per_session, keys, session_to_nwb_args) ==
    [args |-> Append(args_per_session, session_to_nwb_args),
     keys |-> keys \cup {get_session_key_from_kwargs(session_to_nwb_args)}]

\* the five lines that end every loop body of fp_to_nwb and opto_to_nwb:
\* a session whose key was seen is left out, any other is appended
AppendUnique(args_per_session, keys, session_to_nwb_args) ==
    LET session_key == get_session_key_from_kwargs(session_to_nwb_args)
    IN  IF session_key \in keys
        THEN [args |-> args_per_session, keys |-> keys]
        ELSE [args |-> Append(args_per_session, session_to_nwb_args),
              keys |-> keys \cup {session_key}]

\* the locals a loop of fp_to_nwb or opto_to_nwb carries from one iteration
\* to the next, and the exception it ended with ("" while it runs)
LoopState(args, keys, subject_id, exception) ==
    [args |-> args, keys |-> keys, subject_id |-> subject_id,
     raised |-> exception]

\* lines 432-487: the sessions of photometry folders that are left out, by
\* subject, start date and, where the code names it, subgroup
photometry_sessions_to_skip ==
    { <<<<"3", "3", "4", ".", "3", "9", "4">>, <<"0", "7", "/", "2", "1", "/", "2", "0">>, None>>,
      <<<<"9", "9", ".", "2", "5", "7">>, <<"0", "4", "/", "1", "6", "/", "1", "9">>, None>>,
      <<<<"6", "4", ".", "2", "0", "5">>, <<"1", "0", "/", "1", "7", "/", "1", "8">>, <<"L", "a", "t", "e">>>>,
      <<<<"8", "1", ".", "2", "3", "6">>, <<"0", "1", "/", "1", "7", "/", "1", "9">>, <<"L", "a", "t", "e">>>>,
      <<<<"8", "7", ".", "2", "3", "9">>, <<"0", "2", "/", "2", "8", "/", "1", "9">>, <<"L", "a", "t", "e">>>>,
      <<<<"8", "8", ".", "2", "3", "9">>, <<"0", "2", "/", "1", "9", "/", "1", "9">>, <<"L", "a", "t", "e">>>>,
      <<<<"8", "0", ".", "2", "3", "6">>, <<"0", "1", "/", "2", "1", "/", "1", "9">>, <<"L", "a", "t", "e", " ", "R", "I", "6", "0">>>>,
      <<<<"7", "5", ".", "2", "1", "4">>, <<"1", "0", "/", "2", "9", "/", "1", "8">>, <<"L", "a", "t", "e", " ", "R", "I", "6", "0">>>>,
      <<<<"9", "3", ".", "2", "4", "6">>, <<"0", "2", "/", "2", "2", "/", "1", "9">>, <<"L", "a", "t", "e", " ", "R", "I", "6", "0">>>>,
      <<<<"7", "8", ".", "2", "1", "4">>, <<"1", "0", "/", "3", "1", "/", "1", "8">>, <<"L", "a", "t", "e", " ", "R", "I", "6", "0">>>>,
      <<<<"9", "6", ".", "2", "5", "9">>, <<"0", "5", "/", "0", "6", "/", "1", "9">>, <<"l", "a", "t", "e">>>> }

\* lines 395-552: the body of the loop over the photometry folders
PhotometryFolder(c, st) ==
    LET Raises(kind) == [st EXCEPT !.raised = kind]
        dashed == Split(c.name, "-")
        photo == SplitStr(dashed[1], <<"P", "h", "o", "t", "o", "_">>)
        table == partial_subject_ids_to_subject_id("fp_to_nwb")
        \* lines 524-552, with photometry_subject_id as line 509 left it
        append(subject_id, photometry_start_date, args) ==
            LET fi1r == IF c.name \in fi1r_only_sessions
                        THEN Put(args, "has_demodulated_commanded_voltages", FALSE)
                        ELSE args
                second(args2) ==
                    IF c.name = <<"P", "h", "o", "t", "o", "_", "1", "3", "9", "_", "2", "9", "8", "-", "1", "9", "0", "9", "1", "2", "-", "0", "9", "5", "0", "3", "4">>
                    THEN Put(Put(args2, "fiber_photometry_t2", ToFloat(<<"2", "2", "6", "7", ".", "0">>)),
                             "second_fiber_photometry_folder_path",
                             <<"P", "h", "o", "t", "o", "_", "1", "3", "9", "_", "2", "9", "8", "-", "1", "9", "0", "9", "1", "2", "-", "1", "0", "3", "5", "4", "4">>)
                    ELSE IF c.name = <<"P", "h", "o", "t", "o", "_", "3", "3", "2", "_", "3", "9", "3", "-", "2", "0", "0", "7", "2", "8", "-", "1", "2", "2", "4", "0", "3">>
                    THEN Put(args2, "second_fiber_photometry_folder_path",
                             <<"P", "h", "o", "t", "o", "_", "3", "3", "2", "_", "3", "9", "3", "-", "2", "0", "0", "7", "2", "8", "-", "1", "2", "3", "3", "1", "4">>)
                    ELSE IF c.name = <<"P", "h", "o", "t", "o", "_", "9", "2", "_", "2", "4", "6", "-", "1", "9", "0", "2", "2", "7", "-", "1", "4", "3", "2", "1", "0">>
                    THEN Put(args2, "second_fiber_photometry_folder_path",
                             <<"P", "h", "o", "t", "o", "_", "9", "2", "_", "2", "4", "6", "-", "1", "9", "0", "2", "2", "7", "-", "1", "5", "0", "3", "0", "7">>)
                    ELSE args2
                flip(args3) ==
                    IF subject_id = <<"1", "4", "0", ".", "3", "0", "6">> /\ photometry_start_date = <<"0", "8", "/", "0", "9", "/", "1", "9">>
                    THEN Put(args3, "flip_ttls_lr", TRUE)
                    ELSE args3
                unique(r) == [st EXCEPT !.args = r.args, !.keys = r.keys]
            IN  IF c.name \in { <<"P", "h", "o", "t", "o", "_", "1", "3", "9", "_", "2", "9", "8", "-", "1", "9", "0", "9", "1", "2", "-", "1", "0", "3", "5", "4", "4">>,
                                <<"P", "h", "o", "t", "o", "_", "3", "3", "2", "_", "3", "9", "3", "-", "2", "0", "0", "7", "2", "8", "-", "1", "2", "3", "3", "1", "4">>,
                                <<"P", "h", "o", "t", "o", "_", "9", "2", "_", "2", "4", "6", "-", "1", "9", "0", "2", "2", "7", "-", "1", "5", "0", "3", "0", "7">> }
                THEN st
                ELSE unique(AppendUnique(st.args, st.keys, flip(second(fi1r))))
        \* lines 499-523
        session(photometry_subject_id, photometry_start_date, h, start_datetime) ==
            LET subject_id == IF HasKey(table, photometry_subject_id)
                              THEN Lookup(table, photometry_subject_id)
                              ELSE photometry_subject_id
            IN  IF ~start_datetime.ok THEN Raises("ValueError")
                ELSE append(subject_id, photometry_start_date,
                            Put(SessionToNwbArgs(c, h, subject_id, start_datetime.datetime),
                                "fiber_photometry_folder_path", c.name))
        \* lines 432-498
        matched(photometry_subject_id, photometry_start_date, matching) ==
            IF \E row \in photometry_sessions_to_skip :
                  /\ row[1] = photometry_subject_id
                  /\ row[2] = photometry_start_date
                  /\ row[3] = None \/ row[3] = c.experimental_subgroup
            THEN st
            ELSE IF Len(matching) # 1 THEN Raises("AssertionError")
            ELSE session(photometry_subject_id, photometry_start_date, matching[1],
                         Strptime(matching[1].start_date \o <<" ">>
                                  \o matching[1].start_time, DateTimeFormat))
        \* lines 403-431
        match(photometry_subject_id, photometry_start_date) ==
            LET left_out(h) ==
                    \/ /\ photometry_subject_id = <<"2", "7", "1", ".", "3", "9", "6">>
                       /\ photometry_start_date = <<"0", "7", "/", "0", "7", "/", "2", "0">>
                       /\ h.msn = <<"F", "O", "O", "D", "_", "R", "I", " ", "6", "0", " ", "R", "I", "G", "H", "T", " ", "T", "T", "L">>
                    \/ /\ photometry_subject_id = <<"8", "8", ".", "2", "3", "9">>
                       /\ photometry_start_date = <<"0", "2", "/", "1", "9", "/", "1", "9">>
                       /\ h.msn = <<"F", "O", "O", "D", "_", "R", "I", " ", "6", "0", " ", "L", "E", "F", "T", " ", "T", "T", "L">>
            IN  matched(photometry_subject_id, photometry_start_date,
                        SelectSeq(c.header_variables,
                            LAMBDA h : ~left_out(h) /\ h.start_date = photometry_start_date))
        \* line 400: strptime(..., "%y%m%d").strftime("%m/%d/%y")
        strftime(parsed) ==
            IF ~parsed.ok THEN Raises("ValueError")
            ELSE match(Replace(photo[2], "_", "."),
                       TwoDigits(parsed.datetime.month) \o <<"/">>
                       \o TwoDigits(parsed.datetime.day) \o <<"/">>
                       \o TwoDigits(parsed.datetime.year % 100))
    IN  IF Len(photo) < 2 \/ Len(dashed) < 2 THEN Raises("IndexError")
        ELSE strftime(Strptime(dashed[2], <<"%y", "%m", "%d">>))

\* lines 562-600, 703-741 and 758-795: the loop over the sessions of a
\* subject directory of fp_to_nwb, of a subject path of opto_to_nwb and of
\* the raw Opto files by date, from the k-th session on
RECURSIVE LoopSessions(_, _, _)
LoopSessions(c, k, st) ==
    IF k > Len(c.header_variables) \/ st.raised # "" THEN st
    ELSE LET h == c.header_variables[k]
             by_date == c.loop = "opto_by_date"
             start_datetime ==
                 Strptime(h.start_date \o <<" ">> \o h.start_time, DateTimeFormat)
             table == partial_subject_ids_to_subject_id(
                          IF c.loop = "fp_behavior" THEN "fp_to_nwb" ELSE "opto_to_nwb")
             given == IF by_date THEN h.subject ELSE st.subject_id
             subject_id == IF c.loop # "opto_subject" /\ HasKey(table, given)
                           THEN Lookup(table, given)
                           ELSE given
             r == AppendUnique(st.args, st.keys,
                      SessionToNwbArgs(c, h, subject_id, start_datetime.datetime))
         IN  IF session_should_be_skipped(h.start_date, h.start_time, given, h.msn)
             THEN LoopSessions(c, k + 1, st)
             ELSE IF ~start_datetime.ok THEN [st EXCEPT !.raised = "ValueError"]
             ELSE LoopSessions(c, k + 1,
                      LoopState(r.args, r.keys,
                                IF by_date THEN st.subject_id ELSE subject_id, ""))

\* Path.suffix of a file name
Suffix(file) ==
    LET dots == {k \in 1..Len(file) : file[k] = "."}
        last == CHOOSE k \in dots : \A j \in dots : j <= k
    IN  IF dots # {} /\ 1 < last /\ last < Len(file)
        THEN SubSeq(file, last, Len(file))
        ELSE <<>>

\* a variable of the sessions of a MedPC behavior file, as the data directory
\* holds it: an array with the number of values np.trim_zeros leaves, a value
\* on the line of the label, or no line with the label
MedpcVariable(kind, length) == [kind |-> kind, length |-> length]

MedpcVariables(file_path, medpc_name) ==
    CASE file_path = <<"p">> /\ medpc_name = <<"E">> -> MedpcVariable("array", 2)
      [] file_path = <<"q">> /\ medpc_name = <<"E">> -> MedpcVariable("scalar", 0)
      [] file_path = <<"q">> /\ medpc_name = <<"U">> -> MedpcVariable("array", 0)
      [] file_path = <<"r">> /\ medpc_name = <<"E">> -> MedpcVariable("array", 0)
      [] file_path = <<"2", "0", "2", "1", "-", "1", "1", "-", "0", "1", "_", "2", "0", "2">>
             -> MedpcVariable("scalar", 0)
      [] OTHER -> MedpcVariable("absent", 0)

\* medpc_helpers.read_medpc_file (imported at line 54), called with the field
\* map {medpc_name: {"name": "duration_of_port_entry", "is_array": True}} for
\* a session of the file.  It is read_session of the specification: a field
\* of the map that is found in the block is in the record, an array field as
\* its trimmed array, and an array field that holds the value of a scalar line
\* is a type mismatch, the TypeError line 219 handles.
read_medpc_file(file_path, medpc_name) ==
    LET variable == MedpcVariables(file_path, medpc_name)
    IN  CASE variable.kind = "scalar" ->
                 [raised |-> "TypeError", found |-> FALSE, length |-> 0]
          [] variable.kind = "absent" ->
                 [raised |-> "", found |-> FALSE, length |-> 0]
          [] OTHER ->
                 [raised |-> "", found |-> TRUE, length |-> variable.length]

\* lines 187-227: len(session_dict["duration_of_port_entry"]) of one session,
\* or the exception of the read
PortEntryDurations(session_to_nwb_kwargs) ==
    LET behavior_file_path == session_to_nwb_kwargs.behavior_file_path
        first == read_medpc_file(behavior_file_path, <<"E">>)
        record == IF first.raised = "TypeError"
                 THEN read_medpc_file(behavior_file_path, <<"U">>)
                 ELSE first
    IN  IF Suffix(behavior_file_path) = <<".", "c", "s", "v">>
        THEN [raised |-> "", length |-> DurationOfPE(behavior_file_path)]
        ELSE IF record.raised # ""
        THEN [raised |-> record.raised, length |-> 0]
        ELSE IF ~record.found
        THEN [raised |-> "KeyError", length |-> 0]
        ELSE [raised |-> "", length |-> record.length]

\* lines 158-233: get_no_port_entry_duration_sessions with overwrite=False
get_no_port_entry_duration_sessions(port_entry_file_path, args_per_session) ==
    LET no_port_entry_duration_sessions ==
            { get_session_key_from_kwargs(args_per_session[k]) :
                k \in { j \in 1..Len(args_per_session) :
                          PortEntryDurations(args_per_session[j]).length = 0 } }
        raising == { k \in 1..Len(args_per_session) :
                       PortEntryDurations(args_per_session[k]).raised # "" }
    IN  IF port_entry_file_path.exists
        THEN [raised |-> "", is_none |-> port_entry_file_path.is_none,
              sessions |-> port_entry_file_path.sessions, file |-> port_entry_file_path]
        ELSE IF raising # {}
        THEN [raised |-> PortEntryDurations(args_per_session[Min(raising)]).raised,
              is_none |-> FALSE, sessions |-> {}, file |-> port_entry_file_path]
        ELSE [raised |-> "", is_none |-> FALSE,
              sessions |-> no_port_entry_duration_sessions,
              file |-> PortEntryFile(TRUE, FALSE, no_port_entry_duration_sessions)]

\* lines 119-127: the sessions of the joined list, marked when their key is
\* among the sessions without port entry durations, without those of the
\* subjects to skip
RECURSIVE SessionsToSubmit(_, _, _)
SessionsToSubmit(pre_skip, no_port_entry_duration_sessions, k) ==
    IF k > Len(pre_skip) THEN <<>>
    ELSE LET kw == IF get_session_key_from_kwargs(pre_skip[k])
                          \in no_port_entry_duration_sessions
                   THEN Put(pre_skip[k], "has_port_entry_durations", FALSE)
                   ELSE pre_skip[k]
         IN  (IF kw.subject_id \in subjects_to_skip THEN <<>> ELSE <<kw>>)
             \o SessionsToSubmit(pre_skip, no_port_entry_duration_sessions, k + 1)

\* the state of the MedPC reader while the dataset conversion runs
ReaderIdle ==
    /\ lines = <<>>
    /\ session_conditions = <<>>
    /\ start_variable = NameS
    /\ i = 0
    /\ start_line = NoLine
    /\ end_line = NoLine
    /\ met = <<>>
    /\ pc = "idle"
    /\ result = NoResult
    /\ medpc_name_to_dict_name = <<>>
    /\ dict_name_to_type = <<>>
    /\ session_lines = <<>>
    /\ session_dict = <<>>
    /\ multiline_variable_name = Unbound
    /\ read_result = NoRecord
    /\ variable_names = <<>>
    /\ medpc_variables = <<>>
    /\ variables_result = NoVariables
    /\ calls = <<>>

\* the walk has a folder or file left, and the one it yields next
WalkGoesOn == found.yielded < Len(found.sessions)

NextFound == found.sessions[found.yielded + 1]

DatasetInit ==
    /\ ReaderIdle
    /\ \E w \in FoundWalks : found = [sessions |-> w, yielded |-> 0]
    /\ port_entry_file \in PortEntryFiles
    /\ session_to_nwb_args_per_session =
          [fp_to_nwb |-> <<>>, opto_to_nwb |-> <<>>, dataset_to_nwb |-> <<>>]
    /\ unique_session_keys = [fp_to_nwb |-> {}, opto_to_nwb |-> {}]
    /\ futures = <<>>
    /\ error_files = <<>>
    /\ completed = {}
    /\ dataset_pc = "fp_to_nwb"
    /\ raised = ""
    /\ ttl_call = NoCall
    /\ ttl_timestamps = NoTimestamps

\* one iteration of a loop of function fn left the loop state st: the
\* exception leaves fn and dataset_to_nwb, which handle none
LoopStep(fn, st) ==
    /\ found' = [found EXCEPT !.yielded = @ + 1]
    /\ IF st.raised # ""
       THEN /\ raised' = st.raised
            /\ dataset_pc' = "raised"
            /\ UNCHANGED <<session_to_nwb_args_per_session, unique_session_keys>>
       ELSE /\ session_to_nwb_args_per_session' =
                  [session_to_nwb_args_per_session EXCEPT ![fn] = st.args]
            /\ unique_session_keys' = [unique_session_keys EXCEPT ![fn] = st.keys]
            /\ UNCHANGED <<raised, dataset_pc>>
    /\ UNCHANGED <<locateVars, readVars, variablesVars, calls, port_entry_file,
                   futures, error_files, completed, ttlVars>>

\* fp_to_nwb: one photometry folder (lines 395-552)
FpToNwbPhotometry ==
    /\ dataset_pc = "fp_to_nwb"
    /\ WalkGoesOn
    /\ NextFound.loop = "photometry"
    /\ LoopStep("fp_to_nwb",
           PhotometryFolder(NextFound,
               LoopState(session_to_nwb_args_per_session.fp_to_nwb,
                         unique_session_keys.fp_to_nwb, <<>>, "")))

\* fp_to_nwb: one subject directory of the behavior data (lines 559-600)
FpToNwb ==
    /\ dataset_pc = "fp_to_nwb"
    /\ WalkGoesOn
    /\ NextFound.loop = "fp_behavior"
    /\ LoopStep("fp_to_nwb",
           LoopSessions(NextFound, 1,
               LoopState(session_to_nwb_args_per_session.fp_to_nwb,
                         unique_session_keys.fp_to_nwb, NextFound.name, "")))

\* line 601: fp_to_nwb returns its list
FpToNwbReturns ==
    /\ dataset_pc = "fp_to_nwb"
    /\ IF WalkGoesOn
       THEN NextFound.loop \notin {"photometry", "fp_behavior"}
       ELSE TRUE
    /\ dataset_pc' = "opto_to_nwb"
    /\ UNCHANGED <<locateVars, readVars, variablesVars, calls, found,
                   port_entry_file, session_to_nwb_args_per_session,
                   unique_session_keys, futures, error_files, completed,
                   raised, ttlVars>>

\* opto_to_nwb: one subject path (lines 700-741); get_opto_subject_id is
\* called before the sessions of the path are read
OptoToNwb ==
    /\ dataset_pc = "opto_to_nwb"
    /\ WalkGoesOn
    /\ NextFound.loop = "opto_subject"
    /\ LET id == get_opto_subject_id(NextFound.name, NextFound.is_dir)
           st == LoopState(session_to_nwb_args_per_session.opto_to_nwb,
                           unique_session_keys.opto_to_nwb, id.subject_id, id.raised)
       IN  LoopStep("opto_to_nwb", LoopSessions(NextFound, 1, st))

\* opto_to_nwb: the sessions of one raw file by date (lines 745-795)
OptoToNwbByDate ==
    /\ dataset_pc = "opto_to_nwb"
    /\ WalkGoesOn
    /\ NextFound.loop = "opto_by_date"
    /\ LoopStep("opto_to_nwb",
           LoopSessions(NextFound, 1,
               LoopState(session_to_nwb_args_per_session.opto_to_nwb,
                         unique_session_keys.opto_to_nwb, <<>>, "")))

\* lines 111-130: opto_to_nwb returns; dataset_to_nwb joins the two lists,
\* gets the sessions without port entry durations, marks them, drops the
\* skipped subjects and creates the executor.  "in" on the None an empty
\* file is read as raises TypeError.
OptoToNwbReturns ==
    /\ dataset_pc = "opto_to_nwb"
    /\ ~WalkGoesOn
    /\ LET pre_skip == session_to_nwb_args_per_session.fp_to_nwb
                       \o session_to_nwb_args_per_session.opto_to_nwb
           got == get_no_port_entry_duration_sessions(port_entry_file, pre_skip)
       IN  /\ port_entry_file' = got.file
           /\ IF got.raised # "" \/ (got.is_none /\ pre_skip # <<>>)
              THEN /\ raised' = IF got.raised # "" THEN got.raised ELSE "TypeError"
                   /\ dataset_pc' = "raised"
                   /\ UNCHANGED session_to_nwb_args_per_session
              ELSE /\ session_to_nwb_args_per_session' =
                         [session_to_nwb_args_per_session EXCEPT !.dataset_to_nwb =
                             SessionsToSubmit(pre_skip, got.sessions, 1)]
                   /\ dataset_pc' = "pool"
                   /\ UNCHANGED raised
    /\ UNCHANGED <<locateVars, readVars, variablesVars, calls, found,
                   unique_session_keys, futures, error_files, completed,
                   ttlVars>>

\* executor.submit(safe_session_to_nwb, ...): a future waiting for a worker
Future(session_to_nwb_kwargs, exception_file_path) ==
    [session_to_nwb_kwargs |-> session_to_nwb_kwargs,
     exception_file_path |-> exception_file_path,
     state |-> "pending", runs |-> 0, raised |-> FALSE, text_length |-> 0]

\* lines 131-152: one iteration of the submitting loop
Submit ==
    /\ dataset_pc = "pool"
    /\ Len(futures) < Len(session_to_nwb_args_per_session.dataset_to_nwb)
    /\ LET kw == session_to_nwb_args_per_session.dataset_to_nwb[Len(futures) + 1]
       IN  futures' = Append(futures, Future(kw, ExceptionFilePath(kw)))
    /\ UNCHANGED <<locateVars, readVars, variablesVars, calls, found,
                   port_entry_file, session_to_nwb_args_per_session,
                   unique_session_keys, error_files, completed, dataset_pc,
                   raised, ttlVars>>

\* the futures a worker process is busy with
Busy == {n \in 1..Len(futures) : futures[n].state \in {"running", "raised"}}

\* the submitted calls that wait before call n
WaitingBefore(n) == {m \in 1..(n - 1) : futures[m].state = "pending"}

\* line 271: a worker enters session_to_nwb with call n.  The workers take
\* the calls off the queue in the order of submission, but a worker that has
\* taken a call may enter it after a worker that took a later one: call n can
\* be entered while earlier calls still wait, as long as the workers that are
\* inside a call, those that hold the calls waiting before n and the one
\* that holds n are no more than max_workers.
StartSession ==
    /\ dataset_pc = "pool"
    /\ \E n \in 1..Len(futures) :
          /\ futures[n].state = "pending"
          /\ Cardinality(WaitingBefore(n)) + Cardinality(Busy) < max_workers
          /\ futures' = [futures EXCEPT ![n].state = "running",
                                        ![n].runs = @ + 1]
    /\ UNCHANGED <<locateVars, readVars, variablesVars, calls, found,
                   port_entry_file, session_to_nwb_args_per_session,
                   unique_session_keys, error_files, completed, dataset_pc,
                   raised, ttlVars>>

\* line 271: session_to_nwb returns, and so does safe_session_to_nwb
SessionReturns ==
    /\ \E n \in 1..Len(futures) :
          /\ futures[n].state = "running"
          /\ futures' = [futures EXCEPT ![n].state = "finished"]
    /\ UNCHANGED <<locateVars, readVars, variablesVars, calls, found,
                   port_entry_file, session_to_nwb_args_per_session,
                   unique_session_keys, error_files, completed, dataset_pc,
                   raised, ttlVars>>

\* lines 274-275: the text the handler writes, the arguments and then the
\* traceback, character by character
Text(session_to_nwb_kwargs, text_length) ==
    [k \in 1..text_length |->
        [session_to_nwb_kwargs |-> session_to_nwb_kwargs, character |-> k]]

\* what a file holds after a handler that has written nothing before writes
\* text to it: the text from the start of the file, and what the file held
\* beyond the end of the text
Write(content, text) == text \o SubSeq(content, Len(text) + 1, Len(content))

\* lines 272-273: session_to_nwb raises an Exception; the handler opens the
\* error file with mode "w", which empties it
SessionRaises ==
    /\ \E n \in 1..Len(futures) :
          /\ futures[n].state = "running"
          /\ futures' = [futures EXCEPT ![n].state = "raised",
                                        ![n].raised = TRUE]
          /\ error_files' = Put(error_files, futures[n].exception_file_path, <<>>)
    /\ UNCHANGED <<locateVars, readVars, variablesVars, calls, found,
                   port_entry_file, session_to_nwb_args_per_session,
                   unique_session_keys, completed, dataset_pc, raised, ttlVars>>

\* lines 274-275: the handler writes the arguments and the traceback, a
\* text whose length the exception decides, and closes the file, which puts
\* the text in the file from its start on (the text is taken to fit the
\* buffer of the file object, so that it reaches the file in one piece);
\* safe_session_to_nwb returns
WriteError ==
    /\ \E n \in 1..Len(futures), text_length \in 1..MaxText :
          /\ futures[n].state = "raised"
          /\ futures' = [futures EXCEPT ![n].state = "finished",
                                        ![n].text_length = text_length]
          /\ error_files' =
                Put(error_files, futures[n].exception_file_path,
                    Write(error_files[futures[n].exception_file_path],
                          Text(futures[n].session_to_nwb_kwargs, text_length)))
    /\ UNCHANGED <<locateVars, readVars, variablesVars, calls, found,
                   port_entry_file, session_to_nwb_args_per_session,
                   unique_session_keys, completed, dataset_pc, raised, ttlVars>>

\* the submitting loop is over
AllSubmitted == Len(futures) = Len(session_to_nwb_args_per_session.dataset_to_nwb)

\* lines 153-154: as_completed yields a finished future to the driver
AsCompleted ==
    /\ dataset_pc = "pool"
    /\ AllSubmitted
    /\ \E n \in 1..Len(futures) :
          /\ futures[n].state = "finished"
          /\ n \notin completed
          /\ completed' = completed \cup {n}
    /\ UNCHANGED <<locateVars, readVars, variablesVars, calls, found,
                   port_entry_file, session_to_nwb_args_per_session,
                   unique_session_keys, futures, error_files, dataset_pc,
                   raised, ttlVars>>

\* as_completed is exhausted, the with block shuts the executor down and
\* dataset_to_nwb returns
DatasetReturns ==
    /\ dataset_pc = "pool"
    /\ AllSubmitted
    /\ completed = 1..Len(futures)
    /\ dataset_pc' = "done"
    /\ UNCHANGED <<locateVars, readVars, variablesVars, calls, found,
                   port_entry_file, session_to_nwb_args_per_session,
                   unique_session_keys, futures, error_files, completed,
                   raised, ttlVars>>

DatasetNext ==
    \/ FpToNwbPhotometry \/ FpToNwb \/ FpToNwbReturns
    \/ OptoToNwb \/ OptoToNwbByDate \/ OptoToNwbReturns
    \/ Submit \/ StartSession \/ SessionReturns \/ SessionRaises
    \/ WriteError \/ AsCompleted \/ DatasetReturns

\* what the driver and the executor schedule by themselves: the driver keeps
\* running its loops (lines 150-155), a worker that holds a call enters it
\* (line 271), and the handler of lines 272-275, once entered, writes its
\* file.  That a call of session_to_nwb ends is no part of it.
PoolFairness ==
    /\ WF_vars(Submit)
    /\ WF_vars(StartSession)
    /\ WF_vars(WriteError)
    /\ WF_vars(AsCompleted)
    /\ WF_vars(DatasetReturns)

SpecDataset == DatasetInit /\ [][DatasetNext]_vars /\ PoolFairness

\* lines 98-127 alone: fp_to_nwb and opto_to_nwb build their lists of
\* sessions, and nothing is submitted
ListsNext ==
    \/ FpToNwbPhotometry \/ FpToNwb \/ FpToNwbReturns
    \/ OptoToNwb \/ OptoToNwbByDate \/ OptoToNwbReturns

SpecLists == DatasetInit /\ [][ListsNext]_vars

(***************************************************************************)
(* Claims about the dataset conversion.                                    *)
(***************************************************************************)
\* the keys of the sessions of the folders and files the walk has yielded to
\* the loops of a function
YieldedKeys(loops) ==
    UNION { { get_session_key_from_kwargs(
                  [behavior_file_path |-> found.sessions[k].header_variables[n].file,
                   session_conditions |->
                       SessionConditions(found.sessions[k].header_variables[n])]) :
                n \in 1..Len(found.sessions[k].header_variables) } :
            k \in {j \in 1..found.yielded : found.sessions[j].loop \in loops} }

\* C27: the list fp_to_nwb builds and the list opto_to_nwb builds never hold
\* two entries with the same session key: a session whose key is already in
\* the list is left out, and every entry is a session the walk yielded.
C27_NoTwoEntriesWithOneKey ==
    /\ \A fn \in {"fp_to_nwb", "opto_to_nwb"} :
          LET l == session_to_nwb_args_per_session[fn]
          IN  /\ \A a \in 1..Len(l), b \in 1..Len(l) :
                    a # b => get_session_key_from_kwargs(l[a])
                             # get_session_key_from_kwargs(l[b])
              /\ unique_session_keys[fn] =
                    {get_session_key_from_kwargs(l[a]) : a \in 1..Len(l)}
    /\ unique_session_keys.fp_to_nwb \subseteq YieldedKeys({"photometry", "fp_behavior"})
    /\ unique_session_keys.opto_to_nwb \subseteq YieldedKeys({"opto_subject", "opto_by_date"})

\* fp_to_nwb has returned a list of two sessions from a walk that yielded
\* three: the session of the photometry folder, then, in the directory of
\* the subject, that session again and the one of a second file
C27_Witness ==
    /\ dataset_pc = "opto_to_nwb"
    /\ found.yielded = 2
    /\ found.sessions[1].loop = "photometry"
    /\ found.sessions[2].loop = "fp_behavior"
    /\ Len(found.sessions[2].header_variables) = 2
    /\ found.sessions[2].header_variables[1].file
          = session_to_nwb_args_per_session.fp_to_nwb[1].behavior_file_path
    /\ get_session_key_from_kwargs(
           [behavior_file_path |-> found.sessions[2].header_variables[1].file,
            session_conditions |->
                SessionConditions(found.sessions[2].header_variables[1])])
          = get_session_key_from_kwargs(session_to_nwb_args_per_session.fp_to_nwb[1])
    /\ Len(session_to_nwb_args_per_session.fp_to_nwb) = 2

\* C29: any two distinct submitted sessions have distinct error-file paths,
\* so no two workers ever have the same error file open at the same time.
C29_DistinctErrorFilePaths ==
    /\ \A a \in 1..Len(futures), b \in 1..Len(futures) :
          a # b => futures[a].exception_file_path # futures[b].exception_file_path
    /\ \A a \in Busy, b \in Busy :
          a # b /\ futures[a].state = "raised" /\ futures[b].state = "raised"
          => futures[a].exception_file_path # futures[b].exception_file_path

\* the states a submitted call goes through, in order
StateRank(state) ==
    CASE state = "pending" -> 0
      [] state = "running" -> 1
      [] state = "raised" -> 2
      [] state = "finished" -> 3

\* every submitted session has been started at most once, and once when it is
\* past waiting
RunOnce ==
    \A n \in 1..Len(futures) :
        futures[n].runs = IF futures[n].state = "pending" THEN 0 ELSE 1

\* a session that raised and has finished left its diagnostic in the file at
\* its exception_file_path, and that file is the file of no other session
OwnErrorFile ==
    \A n \in 1..Len(futures) :
        futures[n].raised /\ futures[n].state = "finished" =>
            /\ futures[n].exception_file_path \in DOMAIN error_files
            /\ error_files[futures[n].exception_file_path]
                  = Text(futures[n].session_to_nwb_kwargs, futures[n].text_length)

\* dataset_to_nwb returns only when every submitted session has finished and
\* was handed to the driver
AllSeenAtReturn ==
    dataset_pc = "done" =>
        /\ AllSubmitted
        /\ completed = 1..Len(futures)
        /\ \A n \in 1..Len(futures) : futures[n].state = "finished"

\* a step never takes a submitted session back, never changes what it was
\* submitted with and never moves more than one session
OthersUntouched ==
    /\ Len(futures') >= Len(futures)
    /\ \A n \in 1..Len(futures) :
          /\ futures'[n].session_to_nwb_kwargs = futures[n].session_to_nwb_kwargs
          /\ futures'[n].exception_file_path = futures[n].exception_file_path
          /\ StateRank(futures'[n].state) >= StateRank(futures[n].state)
          /\ futures'[n] # futures[n] =>
                \A m \in 1..Len(futures) : m # n => futures'[m] = futures[m]

\* every call of session_to_nwb that was entered ends: it returns or raises
EverySessionEnds == WF_vars(SessionReturns \/ SessionRaises)

\* C21: every session submitted to the pool is run exactly once, a raising
\* session writes its diagnostic to its own error file and leaves the other
\* sessions as they are, and under any interleaving of the workers the driver
\* eventually sees every session complete, provided every conversion that
\* was entered ends.
C21_EachSessionRunsOnceAndAllComplete ==
    /\ [](RunOnce /\ OwnErrorFile /\ AllSeenAtReturn)
    /\ [][OthersUntouched]_vars
    /\ EverySessionEnds => ((dataset_pc = "pool") ~> (dataset_pc = "done"))

(***************************************************************************)
(* get_ttl_timestamps (seiler_2024nwbconverter.py).  A timestamp is a      *)
(* whole number of 64ths of a second: a double holds such a number, and    *)
(* the difference of two of them, exactly, so the arithmetic of the code   *)
(* on these timestamps is the arithmetic of the integers here.             *)
(* tdt_photometry.epocs is a function from the TTL names the block holds   *)
(* to their onset arrays.                                                  *)
(***************************************************************************)
\* most behavior events of a call of get_ttl_timestamps
MaxBehavior == 3

\* the onsets a TTL of the block can have, in 64ths of a second: 6 is the
\* last one within the tolerance of 0 and 7 the first one beyond it, 64 is
\* the last one within ten times the tolerance of 0 and 200 lies beyond it
Onsets == {0, 6, 7, 64, 200}

\* np.sort of a list with the elements of a and of b
RECURSIVE Sorted(_)
Sorted(a) ==
    IF a = <<>> THEN <<>>
    ELSE LET k == CHOOSE j \in 1..Len(a) : \A m \in 1..Len(a) : a[j] <= a[m]
         IN  <<a[k]>> \o Sorted(SubSeq(a, 1, k - 1) \o SubSeq(a, k + 1, Len(a)))

\* the onset arrays of a block: the onsets of a TTL in the order of time
OnsetArrays == {Sorted(a) : a \in UNION {[1..n -> Onsets] : n \in 0..2}}

\* np.abs(x)
Abs(x) == IF x < 0 THEN 0 - x ELSE x

\* np.min(np.abs(target_array - query_element))
MinDistance(target_array, query_element) ==
    Min({Abs(target_array[k] - query_element) : k \in 1..Len(target_array)})

\* line 247: distance > tolerance with tolerance=0.1 (line 179), for a
\* distance in 64ths of a second.  The double 0.1 lies between 6/64 and 7/64.
GreaterThanTolerance(distance) == 10 * distance > 64

\* line 249: distance > 10 * tolerance; 10 * 0.1 is the double 1.0
GreaterThanTenTolerances(distance) == distance > 64

TtlReturned(value) == [kind |-> "returned", value |-> value, error |-> ""]

TtlRaised(error) == [kind |-> "raised", value |-> <<>>, error |-> error]

\* all_close_contains, from the k-th element of query_array on
RECURSIVE AllCloseContains(_, _, _)
AllCloseContains(query_array, target_array, k) ==
    IF k > Len(query_array) THEN TtlReturned(TRUE)
    ELSE IF target_array = <<>> THEN TtlRaised("ValueError")
    ELSE IF GreaterThanTolerance(MinDistance(target_array, query_array[k]))
         THEN IF GreaterThanTenTolerances(MinDistance(target_array, query_array[k]))
              THEN TtlReturned(FALSE)
              ELSE TtlRaised("AssertionError")
    ELSE AllCloseContains(query_array, target_array, k + 1)

PrtN == <<"P", "r", "t", "N">>
PrtR == <<"P", "r", "t", "R">>
RNnR == <<"R", "N", "n", "R">>
LNnR == <<"L", "N", "n", "R">>
RNRW == <<"R", "N", "R", "W">>
LNRW == <<"L", "N", "R", "W">>

\* lines 155-162: the port entries of both TTLs, sorted
PortEntryTimestamps(epocs) ==
    Sorted((IF PrtN \in DOMAIN epocs THEN epocs[PrtN] ELSE <<>>)
           \o (IF PrtR \in DOMAIN epocs THEN epocs[PrtR] ELSE <<>>))

\* lines 164-189: the unrewarded nose pokes, with the rewarded ones where
\* the code merges them in
NosePokeTimestamps(ttl_name, epocs, len_behavior) ==
    LET rewarded_ttl_name == SubSeq(ttl_name, 1, 2) \o <<"R", "W">>
    IN  IF ttl_name \notin DOMAIN epocs \/ rewarded_ttl_name \notin DOMAIN epocs
        THEN TtlRaised("KeyError")
        ELSE LET merged == Sorted(epocs[ttl_name] \o epocs[rewarded_ttl_name])
                 NnR_has_all_nose_pokes ==
                     AllCloseContains(epocs[rewarded_ttl_name], epocs[ttl_name], 1)
             IN  IF Len(epocs[ttl_name]) + Len(epocs[rewarded_ttl_name]) = len_behavior
                 THEN TtlReturned(merged)
                 ELSE IF NnR_has_all_nose_pokes.kind = "raised"
                 THEN NnR_has_all_nose_pokes
                 ELSE IF NnR_has_all_nose_pokes.value
                 THEN TtlReturned(epocs[ttl_name])
                 ELSE TtlReturned(merged)

\* lines 153-192
get_ttl_timestamps(ttl_name, epocs, len_behavior) ==
    IF ttl_name = PrtN THEN TtlReturned(PortEntryTimestamps(epocs))
    ELSE IF ttl_name = RNnR
            \/ (ttl_name = LNnR
                /\ IF ttl_name \in DOMAIN epocs
                   THEN Len(epocs[ttl_name]) # len_behavior ELSE TRUE)
    THEN NosePokeTimestamps(ttl_name, epocs, len_behavior)
    ELSE IF ttl_name \in DOMAIN epocs THEN TtlReturned(epocs[ttl_name])
    ELSE TtlRaised("KeyError")

\* the blocks: a TTL with its rewarded companion, or the TTLs of the port
TtlBlocks ==
    UNION { {[n \in {names[1], names[2]} |-> IF n = names[1] THEN a ELSE b] :
                a \in OnsetArrays, b \in OnsetArrays} :
            names \in {<<RNnR, RNRW>>, <<LNnR, LNRW>>, <<PrtN, PrtR>>} }
    \cup {[n \in {name} |-> a] : name \in {PrtN, PrtR, RNnR, LNRW}, a \in OnsetArrays}

TtlInit ==
    /\ ReaderIdle
    /\ found = [sessions |-> <<>>, yielded |-> 0]
    /\ session_to_nwb_args_per_session = <<>>
    /\ unique_session_keys = <<>>
    /\ futures = <<>>
    /\ error_files = <<>>
    /\ completed = {}
    /\ dataset_pc = "idle"
    /\ raised = ""
    /\ port_entry_file = [exists |-> FALSE, is_none |-> FALSE, sessions |-> {}]
    /\ \E ttl_name \in {PrtN, RNnR, LNnR, RNRW, LNRW}, epocs \in TtlBlocks,
          len_behavior \in 1..MaxBehavior :
          ttl_call = [ttl_name |-> ttl_name, epocs |-> epocs,
                      len_behavior |-> len_behavior]
    /\ ttl_timestamps = NoTimestamps

\* one call of get_ttl_timestamps
GetTtlTimestamps ==
    /\ ttl_timestamps = NoTimestamps
    /\ ttl_timestamps' = get_ttl_timestamps(ttl_call.ttl_name, ttl_call.epocs,
                                            ttl_call.len_behavior)
    /\ UNCHANGED <<locateVars, readVars, variablesVars, calls, datasetVars,
                   ttl_call>>

SpecTtl == TtlInit /\ [][GetTtlTimestamps]_vars

\* C30: get_ttl_timestamps treats RNnR as it treats LNnR: when the block has
\* as many onsets of that TTL as there are behavior events, the call returns
\* exactly those onsets, and none of the rewarded TTL is merged in.
C30_UnrewardedTtlsTreatedAlike ==
    \A name \in {RNnR, LNnR} :
        /\ ttl_timestamps # NoTimestamps
        /\ ttl_call.ttl_name = name
        /\ name \in DOMAIN ttl_call.epocs
        /\ Len(ttl_call.epocs[name]) = ttl_call.len_behavior
        => ttl_timestamps = TtlReturned(ttl_call.epocs[name])

====
